---- MODULE Spec2Model ----
(***************************************************************************)
(* Feather: an embedded vector store with a typed, weighted edge graph.    *)
(* The model follows include/feather.h (class DB), src/metadata.cpp        *)
(* (Metadata::serialize / Metadata::deserialize) and the legacy v3 writer. *)
(*                                                                         *)
(* Representation.  A string is the sequence of its bytes.  A float is its *)
(* IEEE-754 single-precision bit pattern (a natural below 2^31 for the     *)
(* non-negative floats used); on non-negative floats the order of the bit  *)
(* patterns is the order of the floats.  An unordered_map is a function    *)
(* whose domain is the set of keys present.                                *)
(***************************************************************************)
EXTENDS Integers, Sequences, FiniteSets, TLC

VARIABLES
    metadata_store_,    \* DB::metadata_store_ : id -> Metadata
    modality_indices_,  \* DB::modality_indices_ : name -> [dim, elems]
    reverse_index_,     \* DB::reverse_index_ : target id -> <<IncomingEdge>>
    file,               \* the bytes of the file at path_, or NoFile
    atSave,             \* history: the in-memory store at the last save()
    last,               \* history: the last call and how it ended
    steps               \* number of calls made so far

vars == <<metadata_store_, modality_indices_, reverse_index_, file, atSave,
          last, steps>>

store == <<metadata_store_, modality_indices_, reverse_index_>>

----------------------------------------------------------------------------
(* Bounds of the model.                                                    *)

MaxId == 2
MaxSteps == 3
MaxRecall == 2
MaxClock == 1
MaxK == 2
MaxHops == 1

Ids == 1..MaxId
Nows == 1..MaxClock

----------------------------------------------------------------------------
(* Floats, as bit patterns: sign 0, exponent e, mantissa m.                *)

F32(e, m) == e * 8388608 + m

F32Zero == F32(0, 0)
F32One == F32(127, 0)
F32Half == F32(126, 0)
F32Third == F32(125, 2796203)
F32Quarter == F32(125, 0)
F32Fifth == F32(124, 5033165)
F32Threshold == F32(126, 5033165)    \* 0.80f, auto_link's default

\* The value of a vector component (components are 0.0f or 1.0f).
F32Int(b) == IF b = F32One THEN 1 ELSE 0

\* Mutant: a similarity that grows with the distance.
SimilarityReversed(dist) == IF dist = 0 THEN F32Fifth ELSE F32One

\* 1.0f / (1.0f + dist) for an integral distance.
Similarity(dist) ==
    CASE dist = 0 -> F32One
      [] dist = 1 -> F32Half
      [] dist = 2 -> F32Third
      [] dist = 3 -> F32Quarter
      [] OTHER    -> F32Fifth

----------------------------------------------------------------------------
(* Strings used by the model, as byte sequences.                           *)

StrText == <<116, 101, 120, 116>>                      \* "text"
StrVisual == <<118, 105, 115, 117, 97, 108>>            \* "visual"
StrRelatedTo == <<114, 101, 108, 97, 116, 101, 100, 95, 116, 111>>
StrSupports == <<115, 117, 112, 112, 111, 114, 116, 115>>
StrNs == <<110>>                                       \* "n"

Modalities == {StrText, StrVisual}
RelTypes == {StrRelatedTo, StrSupports}
Weights == {F32One, F32Half}

----------------------------------------------------------------------------
(* Maps with a growing domain.                                             *)

EmptyMap == [x \in {} |-> 0]

Put(f, k, v) == [x \in (DOMAIN f) \cup {k} |-> IF x = k THEN v ELSE f[x]]

Has(f, k) == k \in DOMAIN f

\* Sequence helpers.
Count(s, P(_)) == Cardinality({i \in 1..Len(s) : P(s[i])})

Range(s) == {s[i] : i \in 1..Len(s)}

----------------------------------------------------------------------------
(* struct Edge, struct IncomingEdge, struct Metadata.                      *)

Edge(t, r, w) == [target_id |-> t, rel_type |-> r, weight |-> w]

IncomingEdge(s, r, w) == [source_id |-> s, rel_type |-> r, weight |-> w]

\* Metadata::Metadata(): the default-constructed record.
DefaultMetadata ==
    [timestamp |-> 0, importance |-> F32One, type |-> 0,
     source |-> <<>>, content |-> <<>>, tags_json |-> <<>>,
     recall_count |-> 0, last_recalled_at |-> 0,
     namespace_id |-> <<>>, entity_id |-> <<>>, attributes |-> EmptyMap,
     edges |-> <<>>]

----------------------------------------------------------------------------
(* Inputs of the calls.                                                    *)

MaxDim == 2

\* The zero vector of every length up to MaxDim, and the unit vector of
\* length 1: two lengths, and two distinct vectors of one length.
ZeroVec(n) == [i \in 1..n |-> F32Zero]

Vecs == {ZeroVec(n) : n \in 1..MaxDim} \cup {<<F32One>>}

\* Edge lists a caller may hand in inside a Metadata: none, one edge, or
\* the same (target, rel_type) twice.
EdgeInputs ==
    {<<Edge(t, StrRelatedTo, F32One)>> : t \in Ids}
    \cup {<<Edge(MaxId, StrRelatedTo, F32One),
             Edge(MaxId, StrRelatedTo, F32Half)>>}

\* Metadata a caller may hand in: the default record, a record that
\* differs from it in scalar fields, and records carrying edges.
MetaInputs ==
    {DefaultMetadata,
     [DefaultMetadata EXCEPT !.recall_count = 1, !.last_recalled_at = 1,
                             !.namespace_id = StrNs]}
    \cup {[DefaultMetadata EXCEPT !.edges = es] : es \in EdgeInputs}

----------------------------------------------------------------------------
(* The modality registry and the per-modality index.                       *)

\* ModalityIndex with no element yet.
NewIndex(dim) == [dim |-> dim, elems |-> <<>>]

\* Mutant: a registry that re-creates the modality with the new dimension.
get_or_create_index_recreate(mi, modality, dim) ==
    IF ~Has(mi, modality) \/ mi[modality].dim # dim
    THEN Put(mi, modality, NewIndex(dim))
    ELSE mi

\* DB::get_or_create_index: the registry after the call.
get_or_create_index(mi, modality, dim) ==
    IF ~Has(mi, modality) THEN Put(mi, modality, NewIndex(dim)) ELSE mi

\* Position of a label among the elements of an index, 0 when absent.
InternalId(idx, id) ==
    IF \E i \in 1..Len(idx.elems) : idx.elems[i].label = id
    THEN CHOOSE i \in 1..Len(idx.elems) : idx.elems[i].label = id
    ELSE 0

\* hnswlib addPoint(vec, label): insert, or replace the vector of a label
\* that is already present (its internal id is kept).
addPoint(idx, vec, id) ==
    LET i == InternalId(idx, id)
        e == [label |-> id, vec |-> vec]
    IN IF i = 0 THEN [idx EXCEPT !.elems = Append(@, e)]
       ELSE [idx EXCEPT !.elems[i] = e]

\* The id -> vector map of an index.
VectorMap(idx) ==
    [id \in {idx.elems[i].label : i \in 1..Len(idx.elems)} |->
        idx.elems[InternalId(idx, id)].vec]

----------------------------------------------------------------------------
(* Ingestion: DB::add.                                                     *)

\* Mutant: add without its dimension check.
DimensionOkSkipped(vec, m_idx) == TRUE

\* The dimension check of DB::add.
DimensionOk(vec, m_idx) == Len(vec) = m_idx.dim

\* Mutant: add that overwrites the record, edges included.
insert_or_merge_clobber(ms, id, meta) == Put(ms, id, meta)

\* Mutant: add that stores the vector and no record.
insert_or_merge_skipped(ms, id, meta) == ms

\* The metadata half of DB::add: store, or merge keeping existing edges.
insert_or_merge(ms, id, meta) ==
    IF Has(ms, id)
    THEN LET combined ==
                 IF meta.edges = <<>> /\ ms[id].edges # <<>>
                 THEN [meta EXCEPT !.edges = ms[id].edges]
                 ELSE meta
         IN Put(ms, id, combined)
    ELSE Put(ms, id, meta)

add(id, vec, meta, modality) ==
    LET mi1 == get_or_create_index(modality_indices_, modality, Len(vec))
        m_idx == mi1[modality]
        call == [op |-> "add", id |-> id, vec |-> vec, meta |-> meta,
                 modality |-> modality]
    IN IF ~DimensionOk(vec, m_idx)
       THEN /\ modality_indices_' = mi1
            /\ last' = call @@ [err |-> "DimensionMismatch"]
            /\ UNCHANGED <<metadata_store_, reverse_index_>>
       ELSE /\ modality_indices_' =
                   [mi1 EXCEPT ![modality] = addPoint(m_idx, vec, id)]
            /\ metadata_store_' = insert_or_merge(metadata_store_, id, meta)
            /\ last' = call @@ [err |-> "none"]
            /\ UNCHANGED reverse_index_

----------------------------------------------------------------------------
(* Salience: DB::touch.                                                    *)

\* Mutant: a touch that counts the recall but leaves its time alone.
touched_count_only(ms, id, now) ==
    IF Has(ms, id) THEN [ms EXCEPT ![id].recall_count = @ + 1] ELSE ms

\* Mutant: a touch that also drops the edges of the record.
touched_and_cleared(ms, id, now) ==
    IF Has(ms, id)
    THEN [ms EXCEPT ![id].recall_count = @ + 1,
                    ![id].last_recalled_at = now,
                    ![id].edges = <<>>]
    ELSE ms

\* The metadata table after touch(id) at clock reading now.
touched(ms, id, now) ==
    IF Has(ms, id)
    THEN [ms EXCEPT ![id].recall_count = @ + 1,
                    ![id].last_recalled_at = now]
    ELSE ms

touch(id, now) ==
    /\ Has(metadata_store_, id) => metadata_store_[id].recall_count < MaxRecall
    /\ metadata_store_' = touched(metadata_store_, id, now)
    /\ last' = [op |-> "touch", id |-> id, now |-> now, err |-> "none"]
    /\ UNCHANGED <<modality_indices_, reverse_index_>>

----------------------------------------------------------------------------
(* Graph: DB::link.                                                        *)

\* Mutant: a duplicate check that never finds the edge.
HasEdgeNever(edges, to_id, rel_type) == FALSE

\* "same target + rel_type" among a list of outgoing edges.
HasEdge(edges, to_id, rel_type) ==
    \E i \in 1..Len(edges) :
        edges[i].target_id = to_id /\ edges[i].rel_type = rel_type

\* Mutant: a push that leaves the reverse index as it was.
PushNothing(ri, t, ie) == ri

\* reverse_index_[t].push_back(ie): operator[] creates the key.
PushIncoming(ri, t, ie) ==
    Put(ri, t, (IF Has(ri, t) THEN ri[t] ELSE <<>>) \o <<ie>>)

\* Mutant: link that mirrors the edge into the reverse index before it
\* looks the source up.
linked_mirror_first(ms, ri, from_id, to_id, rel_type, weight) ==
    IF ~Has(ms, from_id)
    THEN [ms |-> ms,
          ri |-> PushIncoming(ri, to_id,
                              IncomingEdge(from_id, rel_type, weight))]
    ELSE IF HasEdge(ms[from_id].edges, to_id, rel_type)
    THEN [ms |-> ms, ri |-> ri]
    ELSE [ms |-> [ms EXCEPT ![from_id].edges =
                        Append(@, Edge(to_id, rel_type, weight))],
          ri |-> PushIncoming(ri, to_id,
                              IncomingEdge(from_id, rel_type, weight))]

\* The metadata table and reverse index after link(from, to, rel, w).
linked(ms, ri, from_id, to_id, rel_type, weight) ==
    IF ~Has(ms, from_id) THEN [ms |-> ms, ri |-> ri]
    ELSE IF HasEdge(ms[from_id].edges, to_id, rel_type)
    THEN [ms |-> ms, ri |-> ri]
    ELSE [ms |-> [ms EXCEPT ![from_id].edges =
                        Append(@, Edge(to_id, rel_type, weight))],
          ri |-> PushIncoming(ri, to_id,
                              IncomingEdge(from_id, rel_type, weight))]

link(from_id, to_id, rel_type, weight) ==
    LET r == linked(metadata_store_, reverse_index_, from_id, to_id,
                    rel_type, weight)
    IN /\ metadata_store_' = r.ms
       /\ reverse_index_' = r.ri
       /\ last' = [op |-> "link", from_id |-> from_id, to_id |-> to_id,
                   rel_type |-> rel_type, weight |-> weight, err |-> "none"]
       /\ UNCHANGED modality_indices_

----------------------------------------------------------------------------
(* Metadata CRUD: DB::update_metadata, DB::update_importance.              *)

\* Mutant: an update that drops no incoming entry.
RemoveNothing(ri, id) == ri

\* std::remove_if over every incoming list: drop the entries from id.
RemoveSource(ri, id) ==
    [t \in DOMAIN ri |-> SelectSeq(ri[t], LAMBDA ie : ie.source_id # id)]

\* Push the reverse images of edges[i..] of source id.
RECURSIVE PushImages(_, _, _, _)
PushImages(ri, id, edges, i) ==
    IF i > Len(edges) THEN ri
    ELSE PushImages(
             PushIncoming(ri, edges[i].target_id,
                          IncomingEdge(id, edges[i].rel_type, edges[i].weight)),
             id, edges, i + 1)

update_metadata(id, meta) ==
    /\ metadata_store_' = Put(metadata_store_, id, meta)
    /\ reverse_index_' =
           PushImages(RemoveSource(reverse_index_, id), id, meta.edges, 1)
    /\ last' = [op |-> "update_metadata", id |-> id, meta |-> meta,
                err |-> "none"]
    /\ UNCHANGED modality_indices_

update_importance(id, importance) ==
    /\ metadata_store_' =
           IF Has(metadata_store_, id)
           THEN [metadata_store_ EXCEPT ![id].importance = importance]
           ELSE metadata_store_
    /\ last' = [op |-> "update_importance", id |-> id,
                importance |-> importance, err |-> "none"]
    /\ UNCHANGED <<modality_indices_, reverse_index_>>

----------------------------------------------------------------------------
(* struct SearchFilter and SearchFilter::matches.                          *)

\* std::optional: absent, or holding a value.
None == [some |-> FALSE]

Some(v) == [some |-> TRUE, val |-> v]

\* SearchFilter with no field set.
EmptyFilter ==
    [types |-> None, source |-> None, source_prefix |-> None,
     timestamp_after |-> None, timestamp_before |-> None,
     importance_gte |-> None, tags_contains |-> None,
     namespace_id |-> None, entity_id |-> None, attributes_match |-> None]

\* std::string::npos.
npos == -1

\* std::string::find: the first position (from 0) at which t occurs in s.
Find(s, t) ==
    LET at == {i \in 0..(Len(s) - Len(t)) : SubSeq(s, i + 1, i + Len(t)) = t}
    IN IF at = {} THEN npos ELSE CHOOSE i \in at : \A j \in at : i <= j

\* The checks of matches, in the order of the code; each is TRUE when the
\* code goes on to the next one.
TypesPass(f, meta) ==
    f.types.some => \E i \in 1..Len(f.types.val) : meta.type = f.types.val[i]

SourcePass(f, meta) ==
    /\ ~(f.source.some /\ meta.source # f.source.val)
    /\ ~(f.source_prefix.some /\ Find(meta.source, f.source_prefix.val) # 0)

TimestampPass(f, meta) ==
    /\ ~(f.timestamp_after.some /\ meta.timestamp < f.timestamp_after.val)
    /\ ~(f.timestamp_before.some /\ meta.timestamp > f.timestamp_before.val)

ImportancePass(f, meta) ==
    ~(f.importance_gte.some /\ meta.importance < f.importance_gte.val)

TagsPass(f, meta) ==
    f.tags_contains.some
        => \A i \in 1..Len(f.tags_contains.val) :
              Find(meta.tags_json, f.tags_contains.val[i]) # npos

NamespacePass(f, meta) ==
    /\ ~(f.namespace_id.some /\ meta.namespace_id # f.namespace_id.val)
    /\ ~(f.entity_id.some /\ meta.entity_id # f.entity_id.val)

AttributesPass(f, meta) ==
    f.attributes_match.some
        => \A key \in DOMAIN f.attributes_match.val :
              /\ Has(meta.attributes, key)
              /\ meta.attributes[key] = f.attributes_match.val[key]

\* Mutant: matches without its attribute loop.
matches_no_attributes(f, meta) ==
    /\ TypesPass(f, meta)
    /\ SourcePass(f, meta)
    /\ TimestampPass(f, meta)
    /\ ImportancePass(f, meta)
    /\ TagsPass(f, meta)
    /\ NamespacePass(f, meta)

\* SearchFilter::matches.
matches(f, meta) ==
    /\ TypesPass(f, meta)
    /\ SourcePass(f, meta)
    /\ TimestampPass(f, meta)
    /\ ImportancePass(f, meta)
    /\ TagsPass(f, meta)
    /\ NamespacePass(f, meta)
    /\ AttributesPass(f, meta)

\* Mutant: a functor that lets every id through.
AcceptAll(filter, ms, id) == TRUE

\* FilterWrapper::operator(): filter is None for a null filter pointer.
FilterWrapper(filter, ms, id) ==
    IF ~filter.some THEN TRUE
    ELSE IF ~Has(ms, id) THEN FALSE
    ELSE matches(filter.val, ms[id])

----------------------------------------------------------------------------
(* struct ScoringConfig and Scorer::calculate_score.  The float arithmetic *)
(* is tabulated: every row is the float32 result of the expression named   *)
(* above the table, for the arguments the model's bounds allow.            *)

F32Thirty == F32(131, 7340032)          \* 30.0f
F32ThreeTenths == F32(125, 1677722)     \* 0.3f

\* search called with scoring = nullptr.
NoScoring == [set |-> FALSE]

\* ScoringConfig(): half-life 30 days, time weight 0.3, no floor.
DefaultScoring ==
    [set |-> TRUE, decay_half_life_days |-> F32Thirty,
     time_weight |-> F32ThreeTenths, min_weight |-> F32Zero]

\* 1.0f + std::log(1.0f + meta.recall_count).
Stickiness(recall_count) ==
    CASE recall_count = 0 -> F32(127, 0)
      [] recall_count = 1 -> F32(127, 5814540)
      [] recall_count = 2 -> F32(128, 413610)
      [] recall_count = 3 -> F32(128, 1620236)
      [] recall_count = 4 -> F32(128, 2556168)

\* now_ts - timestamp, not below 0.
AgeSeconds(now_ts, timestamp) ==
    IF now_ts - timestamp < 0 THEN 0 ELSE now_ts - timestamp

\* std::pow(0.5f, (float(age_seconds / 86400.0) / stickiness) / 30.0f),
\* by age_seconds and recall_count.
Recency(age_seconds, recall_count) ==
    CASE age_seconds = 0 /\ recall_count = 0 -> F32(127, 0)
      [] age_seconds = 0 /\ recall_count = 1 -> F32(127, 0)
      [] age_seconds = 0 /\ recall_count = 2 -> F32(127, 0)
      [] age_seconds = 0 /\ recall_count = 3 -> F32(127, 0)
      [] age_seconds = 0 /\ recall_count = 4 -> F32(127, 0)
      [] age_seconds = 1 /\ recall_count = 0 -> F32(126, 8388604)
      [] age_seconds = 1 /\ recall_count = 1 -> F32(126, 8388605)
      [] age_seconds = 1 /\ recall_count = 2 -> F32(126, 8388606)
      [] age_seconds = 1 /\ recall_count = 3 -> F32(126, 8388606)
      [] age_seconds = 1 /\ recall_count = 4 -> F32(126, 8388606)
      [] age_seconds = 2 /\ recall_count = 0 -> F32(126, 8388599)
      [] age_seconds = 2 /\ recall_count = 1 -> F32(126, 8388603)
      [] age_seconds = 2 /\ recall_count = 2 -> F32(126, 8388604)
      [] age_seconds = 2 /\ recall_count = 3 -> F32(126, 8388604)
      [] age_seconds = 2 /\ recall_count = 4 -> F32(126, 8388605)
      [] age_seconds = 3 /\ recall_count = 0 -> F32(126, 8388595)
      [] age_seconds = 3 /\ recall_count = 1 -> F32(126, 8388600)
      [] age_seconds = 3 /\ recall_count = 2 -> F32(126, 8388602)
      [] age_seconds = 3 /\ recall_count = 3 -> F32(126, 8388602)
      [] age_seconds = 3 /\ recall_count = 4 -> F32(126, 8388603)
      [] age_seconds = 2592000 /\ recall_count = 0 -> F32(126, 0)
      [] age_seconds = 2592000 /\ recall_count = 1 -> F32(126, 2752458)
      [] age_seconds = 2592000 /\ recall_count = 2 -> F32(126, 3669454)
      [] age_seconds = 2592000 /\ recall_count = 3 -> F32(126, 4159271)
      [] age_seconds = 2592000 /\ recall_count = 4 -> F32(126, 4474854)

\* ((1.0f - 0.3f) * s + 0.3f * r) * i, by similarity s, recency r and
\* importance i.
Blend(s, r, i) ==
    CASE s = F32(124, 5033165) /\ r = F32(126, 0) /\ i = F32One -> F32(125, 1342178)
      [] s = F32(124, 5033165) /\ r = F32(126, 0) /\ i = F32Half -> F32(124, 1342178)
      [] s = F32(124, 5033165) /\ r = F32(126, 2752458) /\ i = F32One -> F32(125, 2993652)
      [] s = F32(124, 5033165) /\ r = F32(126, 2752458) /\ i = F32Half -> F32(124, 2993652)
      [] s = F32(124, 5033165) /\ r = F32(126, 3669454) /\ i = F32One -> F32(125, 3543850)
      [] s = F32(124, 5033165) /\ r = F32(126, 3669454) /\ i = F32Half -> F32(124, 3543850)
      [] s = F32(124, 5033165) /\ r = F32(126, 4159271) /\ i = F32One -> F32(125, 3837740)
      [] s = F32(124, 5033165) /\ r = F32(126, 4159271) /\ i = F32Half -> F32(124, 3837740)
      [] s = F32(124, 5033165) /\ r = F32(126, 4474854) /\ i = F32One -> F32(125, 4027090)
      [] s = F32(124, 5033165) /\ r = F32(126, 4474854) /\ i = F32Half -> F32(124, 4027090)
      [] s = F32(124, 5033165) /\ r = F32(126, 8388595) /\ i = F32One -> F32(125, 6375334)
      [] s = F32(124, 5033165) /\ r = F32(126, 8388595) /\ i = F32Half -> F32(124, 6375334)
      [] s = F32(124, 5033165) /\ r = F32(126, 8388599) /\ i = F32One -> F32(125, 6375338)
      [] s = F32(124, 5033165) /\ r = F32(126, 8388599) /\ i = F32Half -> F32(124, 6375338)
      [] s = F32(124, 5033165) /\ r = F32(126, 8388600) /\ i = F32One -> F32(125, 6375338)
      [] s = F32(124, 5033165) /\ r = F32(126, 8388600) /\ i = F32Half -> F32(124, 6375338)
      [] s = F32(124, 5033165) /\ r = F32(126, 8388602) /\ i = F32One -> F32(125, 6375338)
      [] s = F32(124, 5033165) /\ r = F32(126, 8388602) /\ i = F32Half -> F32(124, 6375338)
      [] s = F32(124, 5033165) /\ r = F32(126, 8388603) /\ i = F32One -> F32(125, 6375340)
      [] s = F32(124, 5033165) /\ r = F32(126, 8388603) /\ i = F32Half -> F32(124, 6375340)
      [] s = F32(124, 5033165) /\ r = F32(126, 8388604) /\ i = F32One -> F32(125, 6375340)
      [] s = F32(124, 5033165) /\ r = F32(126, 8388604) /\ i = F32Half -> F32(124, 6375340)
      [] s = F32(124, 5033165) /\ r = F32(126, 8388605) /\ i = F32One -> F32(125, 6375340)
      [] s = F32(124, 5033165) /\ r = F32(126, 8388605) /\ i = F32Half -> F32(124, 6375340)
      [] s = F32(124, 5033165) /\ r = F32(126, 8388606) /\ i = F32One -> F32(125, 6375342)
      [] s = F32(124, 5033165) /\ r = F32(126, 8388606) /\ i = F32Half -> F32(124, 6375342)
      [] s = F32(124, 5033165) /\ r = F32(127, 0) /\ i = F32One -> F32(125, 6375342)
      [] s = F32(124, 5033165) /\ r = F32(127, 0) /\ i = F32Half -> F32(124, 6375342)
      [] s = F32(125, 0) /\ r = F32(126, 0) /\ i = F32One -> F32(125, 2516582)
      [] s = F32(125, 0) /\ r = F32(126, 0) /\ i = F32Half -> F32(124, 2516582)
      [] s = F32(125, 0) /\ r = F32(126, 2752458) /\ i = F32One -> F32(125, 4168058)
      [] s = F32(125, 0) /\ r = F32(126, 2752458) /\ i = F32Half -> F32(124, 4168058)
      [] s = F32(125, 0) /\ r = F32(126, 3669454) /\ i = F32One -> F32(125, 4718255)
      [] s = F32(125, 0) /\ r = F32(126, 3669454) /\ i = F32Half -> F32(124, 4718255)
      [] s = F32(125, 0) /\ r = F32(126, 4159271) /\ i = F32One -> F32(125, 5012145)
      [] s = F32(125, 0) /\ r = F32(126, 4159271) /\ i = F32Half -> F32(124, 5012145)
      [] s = F32(125, 0) /\ r = F32(126, 4474854) /\ i = F32One -> F32(125, 5201495)
      [] s = F32(125, 0) /\ r = F32(126, 4474854) /\ i = F32Half -> F32(124, 5201495)
      [] s = F32(125, 0) /\ r = F32(126, 8388595) /\ i = F32One -> F32(125, 7549740)
      [] s = F32(125, 0) /\ r = F32(126, 8388595) /\ i = F32Half -> F32(124, 7549740)
      [] s = F32(125, 0) /\ r = F32(126, 8388599) /\ i = F32One -> F32(125, 7549742)
      [] s = F32(125, 0) /\ r = F32(126, 8388599) /\ i = F32Half -> F32(124, 7549742)
      [] s = F32(125, 0) /\ r = F32(126, 8388600) /\ i = F32One -> F32(125, 7549742)
      [] s = F32(125, 0) /\ r = F32(126, 8388600) /\ i = F32Half -> F32(124, 7549742)
      [] s = F32(125, 0) /\ r = F32(126, 8388602) /\ i = F32One -> F32(125, 7549744)
      [] s = F32(125, 0) /\ r = F32(126, 8388602) /\ i = F32Half -> F32(124, 7549744)
      [] s = F32(125, 0) /\ r = F32(126, 8388603) /\ i = F32One -> F32(125, 7549744)
      [] s = F32(125, 0) /\ r = F32(126, 8388603) /\ i = F32Half -> F32(124, 7549744)
      [] s = F32(125, 0) /\ r = F32(126, 8388604) /\ i = F32One -> F32(125, 7549746)
      [] s = F32(125, 0) /\ r = F32(126, 8388604) /\ i = F32Half -> F32(124, 7549746)
      [] s = F32(125, 0) /\ r = F32(126, 8388605) /\ i = F32One -> F32(125, 7549746)
      [] s = F32(125, 0) /\ r = F32(126, 8388605) /\ i = F32Half -> F32(124, 7549746)
      [] s = F32(125, 0) /\ r = F32(126, 8388606) /\ i = F32One -> F32(125, 7549746)
      [] s = F32(125, 0) /\ r = F32(126, 8388606) /\ i = F32Half -> F32(124, 7549746)
      [] s = F32(125, 0) /\ r = F32(127, 0) /\ i = F32One -> F32(125, 7549748)
      [] s = F32(125, 0) /\ r = F32(127, 0) /\ i = F32Half -> F32(124, 7549748)
      [] s = F32(125, 2796203) /\ r = F32(126, 0) /\ i = F32One -> F32(125, 4473924)
      [] s = F32(125, 2796203) /\ r = F32(126, 0) /\ i = F32Half -> F32(124, 4473924)
      [] s = F32(125, 2796203) /\ r = F32(126, 2752458) /\ i = F32One -> F32(125, 6125400)
      [] s = F32(125, 2796203) /\ r = F32(126, 2752458) /\ i = F32Half -> F32(124, 6125400)
      [] s = F32(125, 2796203) /\ r = F32(126, 3669454) /\ i = F32One -> F32(125, 6675597)
      [] s = F32(125, 2796203) /\ r = F32(126, 3669454) /\ i = F32Half -> F32(124, 6675597)
      [] s = F32(125, 2796203) /\ r = F32(126, 4159271) /\ i = F32One -> F32(125, 6969487)
      [] s = F32(125, 2796203) /\ r = F32(126, 4159271) /\ i = F32Half -> F32(124, 6969487)
      [] s = F32(125, 2796203) /\ r = F32(126, 4474854) /\ i = F32One -> F32(125, 7158837)
      [] s = F32(125, 2796203) /\ r = F32(126, 4474854) /\ i = F32Half -> F32(124, 7158837)
      [] s = F32(125, 2796203) /\ r = F32(126, 8388595) /\ i = F32One -> F32(126, 559237)
      [] s = F32(125, 2796203) /\ r = F32(126, 8388595) /\ i = F32Half -> F32(125, 559237)
      [] s = F32(125, 2796203) /\ r = F32(126, 8388599) /\ i = F32One -> F32(126, 559238)
      [] s = F32(125, 2796203) /\ r = F32(126, 8388599) /\ i = F32Half -> F32(125, 559238)
      [] s = F32(125, 2796203) /\ r = F32(126, 8388600) /\ i = F32One -> F32(126, 559238)
      [] s = F32(125, 2796203) /\ r = F32(126, 8388600) /\ i = F32Half -> F32(125, 559238)
      [] s = F32(125, 2796203) /\ r = F32(126, 8388602) /\ i = F32One -> F32(126, 559239)
      [] s = F32(125, 2796203) /\ r = F32(126, 8388602) /\ i = F32Half -> F32(125, 559239)
      [] s = F32(125, 2796203) /\ r = F32(126, 8388603) /\ i = F32One -> F32(126, 559239)
      [] s = F32(125, 2796203) /\ r = F32(126, 8388603) /\ i = F32Half -> F32(125, 559239)
      [] s = F32(125, 2796203) /\ r = F32(126, 8388604) /\ i = F32One -> F32(126, 559240)
      [] s = F32(125, 2796203) /\ r = F32(126, 8388604) /\ i = F32Half -> F32(125, 559240)
      [] s = F32(125, 2796203) /\ r = F32(126, 8388605) /\ i = F32One -> F32(126, 559240)
      [] s = F32(125, 2796203) /\ r = F32(126, 8388605) /\ i = F32Half -> F32(125, 559240)
      [] s = F32(125, 2796203) /\ r = F32(126, 8388606) /\ i = F32One -> F32(126, 559240)
      [] s = F32(125, 2796203) /\ r = F32(126, 8388606) /\ i = F32Half -> F32(125, 559240)
      [] s = F32(125, 2796203) /\ r = F32(127, 0) /\ i = F32One -> F32(126, 559241)
      [] s = F32(125, 2796203) /\ r = F32(127, 0) /\ i = F32Half -> F32(125, 559241)
      [] s = F32(126, 0) /\ r = F32(126, 0) /\ i = F32One -> F32(126, 0)
      [] s = F32(126, 0) /\ r = F32(126, 0) /\ i = F32Half -> F32(125, 0)
      [] s = F32(126, 0) /\ r = F32(126, 2752458) /\ i = F32One -> F32(126, 825738)
      [] s = F32(126, 0) /\ r = F32(126, 2752458) /\ i = F32Half -> F32(125, 825738)
      [] s = F32(126, 0) /\ r = F32(126, 3669454) /\ i = F32One -> F32(126, 1100836)
      [] s = F32(126, 0) /\ r = F32(126, 3669454) /\ i = F32Half -> F32(125, 1100836)
      [] s = F32(126, 0) /\ r = F32(126, 4159271) /\ i = F32One -> F32(126, 1247781)
      [] s = F32(126, 0) /\ r = F32(126, 4159271) /\ i = F32Half -> F32(125, 1247781)
      [] s = F32(126, 0) /\ r = F32(126, 4474854) /\ i = F32One -> F32(126, 1342456)
      [] s = F32(126, 0) /\ r = F32(126, 4474854) /\ i = F32Half -> F32(125, 1342456)
      [] s = F32(126, 0) /\ r = F32(126, 8388595) /\ i = F32One -> F32(126, 2516578)
      [] s = F32(126, 0) /\ r = F32(126, 8388595) /\ i = F32Half -> F32(125, 2516578)
      [] s = F32(126, 0) /\ r = F32(126, 8388599) /\ i = F32One -> F32(126, 2516580)
      [] s = F32(126, 0) /\ r = F32(126, 8388599) /\ i = F32Half -> F32(125, 2516580)
      [] s = F32(126, 0) /\ r = F32(126, 8388600) /\ i = F32One -> F32(126, 2516580)
      [] s = F32(126, 0) /\ r = F32(126, 8388600) /\ i = F32Half -> F32(125, 2516580)
      [] s = F32(126, 0) /\ r = F32(126, 8388602) /\ i = F32One -> F32(126, 2516580)
      [] s = F32(126, 0) /\ r = F32(126, 8388602) /\ i = F32Half -> F32(125, 2516580)
      [] s = F32(126, 0) /\ r = F32(126, 8388603) /\ i = F32One -> F32(126, 2516581)
      [] s = F32(126, 0) /\ r = F32(126, 8388603) /\ i = F32Half -> F32(125, 2516581)
      [] s = F32(126, 0) /\ r = F32(126, 8388604) /\ i = F32One -> F32(126, 2516582)
      [] s = F32(126, 0) /\ r = F32(126, 8388604) /\ i = F32Half -> F32(125, 2516582)
      [] s = F32(126, 0) /\ r = F32(126, 8388605) /\ i = F32One -> F32(126, 2516582)
      [] s = F32(126, 0) /\ r = F32(126, 8388605) /\ i = F32Half -> F32(125, 2516582)
      [] s = F32(126, 0) /\ r = F32(126, 8388606) /\ i = F32One -> F32(126, 2516582)
      [] s = F32(126, 0) /\ r = F32(126, 8388606) /\ i = F32Half -> F32(125, 2516582)
      [] s = F32(126, 0) /\ r = F32(127, 0) /\ i = F32One -> F32(126, 2516582)
      [] s = F32(126, 0) /\ r = F32(127, 0) /\ i = F32Half -> F32(125, 2516582)
      [] s = F32(127, 0) /\ r = F32(126, 0) /\ i = F32One -> F32(126, 5872026)
      [] s = F32(127, 0) /\ r = F32(126, 0) /\ i = F32Half -> F32(125, 5872026)
      [] s = F32(127, 0) /\ r = F32(126, 2752458) /\ i = F32One -> F32(126, 6697763)
      [] s = F32(127, 0) /\ r = F32(126, 2752458) /\ i = F32Half -> F32(125, 6697763)
      [] s = F32(127, 0) /\ r = F32(126, 3669454) /\ i = F32One -> F32(126, 6972862)
      [] s = F32(127, 0) /\ r = F32(126, 3669454) /\ i = F32Half -> F32(125, 6972862)
      [] s = F32(127, 0) /\ r = F32(126, 4159271) /\ i = F32One -> F32(126, 7119807)
      [] s = F32(127, 0) /\ r = F32(126, 4159271) /\ i = F32Half -> F32(125, 7119807)
      [] s = F32(127, 0) /\ r = F32(126, 4474854) /\ i = F32One -> F32(126, 7214482)
      [] s = F32(127, 0) /\ r = F32(126, 4474854) /\ i = F32Half -> F32(125, 7214482)
      [] s = F32(127, 0) /\ r = F32(126, 8388595) /\ i = F32One -> F32(126, 8388604)
      [] s = F32(127, 0) /\ r = F32(126, 8388595) /\ i = F32Half -> F32(125, 8388604)
      [] s = F32(127, 0) /\ r = F32(126, 8388599) /\ i = F32One -> F32(126, 8388606)
      [] s = F32(127, 0) /\ r = F32(126, 8388599) /\ i = F32Half -> F32(125, 8388606)
      [] s = F32(127, 0) /\ r = F32(126, 8388600) /\ i = F32One -> F32(126, 8388606)
      [] s = F32(127, 0) /\ r = F32(126, 8388600) /\ i = F32Half -> F32(125, 8388606)
      [] s = F32(127, 0) /\ r = F32(126, 8388602) /\ i = F32One -> F32(126, 8388606)
      [] s = F32(127, 0) /\ r = F32(126, 8388602) /\ i = F32Half -> F32(125, 8388606)
      [] s = F32(127, 0) /\ r = F32(126, 8388603) /\ i = F32One -> F32(126, 8388606)
      [] s = F32(127, 0) /\ r = F32(126, 8388603) /\ i = F32Half -> F32(125, 8388606)
      [] s = F32(127, 0) /\ r = F32(126, 8388604) /\ i = F32One -> F32(126, 8388607)
      [] s = F32(127, 0) /\ r = F32(126, 8388604) /\ i = F32Half -> F32(125, 8388607)
      [] s = F32(127, 0) /\ r = F32(126, 8388605) /\ i = F32One -> F32(126, 8388607)
      [] s = F32(127, 0) /\ r = F32(126, 8388605) /\ i = F32Half -> F32(125, 8388607)
      [] s = F32(127, 0) /\ r = F32(126, 8388606) /\ i = F32One -> F32(127, 0)
      [] s = F32(127, 0) /\ r = F32(126, 8388606) /\ i = F32Half -> F32(126, 0)
      [] s = F32(127, 0) /\ r = F32(127, 0) /\ i = F32One -> F32(127, 0)
      [] s = F32(127, 0) /\ r = F32(127, 0) /\ i = F32Half -> F32(126, 0)

\* ((1.0f - 2.0f) * s + 2.0f * r) * i, by similarity s, recency r and
\* importance i: the blend under a time weight of 2.
BlendTwo(s, r, i) ==
    CASE s = F32(124, 5033165) /\ r = F32(126, 0) /\ i = F32One -> F32(126, 5033165)
      [] s = F32(124, 5033165) /\ r = F32(126, 0) /\ i = F32Half -> F32(125, 5033165)
      [] s = F32(124, 5033165) /\ r = F32(126, 2752458) /\ i = F32One -> F32(127, 1074736)
      [] s = F32(124, 5033165) /\ r = F32(126, 2752458) /\ i = F32Half -> F32(126, 1074736)
      [] s = F32(124, 5033165) /\ r = F32(126, 3669454) /\ i = F32One -> F32(127, 1991732)
      [] s = F32(124, 5033165) /\ r = F32(126, 3669454) /\ i = F32Half -> F32(126, 1991732)
      [] s = F32(124, 5033165) /\ r = F32(126, 4159271) /\ i = F32One -> F32(127, 2481549)
      [] s = F32(124, 5033165) /\ r = F32(126, 4159271) /\ i = F32Half -> F32(126, 2481549)
      [] s = F32(124, 5033165) /\ r = F32(126, 4474854) /\ i = F32One -> F32(127, 2797132)
      [] s = F32(124, 5033165) /\ r = F32(126, 4474854) /\ i = F32Half -> F32(126, 2797132)
      [] s = F32(124, 5033165) /\ r = F32(126, 8388595) /\ i = F32One -> F32(127, 6710873)
      [] s = F32(124, 5033165) /\ r = F32(126, 8388595) /\ i = F32Half -> F32(126, 6710873)
      [] s = F32(124, 5033165) /\ r = F32(126, 8388599) /\ i = F32One -> F32(127, 6710877)
      [] s = F32(124, 5033165) /\ r = F32(126, 8388599) /\ i = F32Half -> F32(126, 6710877)
      [] s = F32(124, 5033165) /\ r = F32(126, 8388600) /\ i = F32One -> F32(127, 6710878)
      [] s = F32(124, 5033165) /\ r = F32(126, 8388600) /\ i = F32Half -> F32(126, 6710878)
      [] s = F32(124, 5033165) /\ r = F32(126, 8388602) /\ i = F32One -> F32(127, 6710880)
      [] s = F32(124, 5033165) /\ r = F32(126, 8388602) /\ i = F32Half -> F32(126, 6710880)
      [] s = F32(124, 5033165) /\ r = F32(126, 8388603) /\ i = F32One -> F32(127, 6710881)
      [] s = F32(124, 5033165) /\ r = F32(126, 8388603) /\ i = F32Half -> F32(126, 6710881)
      [] s = F32(124, 5033165) /\ r = F32(126, 8388604) /\ i = F32One -> F32(127, 6710882)
      [] s = F32(124, 5033165) /\ r = F32(126, 8388604) /\ i = F32Half -> F32(126, 6710882)
      [] s = F32(124, 5033165) /\ r = F32(126, 8388605) /\ i = F32One -> F32(127, 6710883)
      [] s = F32(124, 5033165) /\ r = F32(126, 8388605) /\ i = F32Half -> F32(126, 6710883)
      [] s = F32(124, 5033165) /\ r = F32(126, 8388606) /\ i = F32One -> F32(127, 6710884)
      [] s = F32(124, 5033165) /\ r = F32(126, 8388606) /\ i = F32Half -> F32(126, 6710884)
      [] s = F32(124, 5033165) /\ r = F32(127, 0) /\ i = F32One -> F32(127, 6710886)
      [] s = F32(124, 5033165) /\ r = F32(127, 0) /\ i = F32Half -> F32(126, 6710886)
      [] s = F32(125, 0) /\ r = F32(126, 0) /\ i = F32One -> F32(126, 4194304)
      [] s = F32(125, 0) /\ r = F32(126, 0) /\ i = F32Half -> F32(125, 4194304)
      [] s = F32(125, 0) /\ r = F32(126, 2752458) /\ i = F32One -> F32(127, 655306)
      [] s = F32(125, 0) /\ r = F32(126, 2752458) /\ i = F32Half -> F32(126, 655306)
      [] s = F32(125, 0) /\ r = F32(126, 3669454) /\ i = F32One -> F32(127, 1572302)
      [] s = F32(125, 0) /\ r = F32(126, 3669454) /\ i = F32Half -> F32(126, 1572302)
      [] s = F32(125, 0) /\ r = F32(126, 4159271) /\ i = F32One -> F32(127, 2062119)
      [] s = F32(125, 0) /\ r = F32(126, 4159271) /\ i = F32Half -> F32(126, 2062119)
      [] s = F32(125, 0) /\ r = F32(126, 4474854) /\ i = F32One -> F32(127, 2377702)
      [] s = F32(125, 0) /\ r = F32(126, 4474854) /\ i = F32Half -> F32(126, 2377702)
      [] s = F32(125, 0) /\ r = F32(126, 8388595) /\ i = F32One -> F32(127, 6291443)
      [] s = F32(125, 0) /\ r = F32(126, 8388595) /\ i = F32Half -> F32(126, 6291443)
      [] s = F32(125, 0) /\ r = F32(126, 8388599) /\ i = F32One -> F32(127, 6291447)
      [] s = F32(125, 0) /\ r = F32(126, 8388599) /\ i = F32Half -> F32(126, 6291447)
      [] s = F32(125, 0) /\ r = F32(126, 8388600) /\ i = F32One -> F32(127, 6291448)
      [] s = F32(125, 0) /\ r = F32(126, 8388600) /\ i = F32Half -> F32(126, 6291448)
      [] s = F32(125, 0) /\ r = F32(126, 8388602) /\ i = F32One -> F32(127, 6291450)
      [] s = F32(125, 0) /\ r = F32(126, 8388602) /\ i = F32Half -> F32(126, 6291450)
      [] s = F32(125, 0) /\ r = F32(126, 8388603) /\ i = F32One -> F32(127, 6291451)
      [] s = F32(125, 0) /\ r = F32(126, 8388603) /\ i = F32Half -> F32(126, 6291451)
      [] s = F32(125, 0) /\ r = F32(126, 8388604) /\ i = F32One -> F32(127, 6291452)
      [] s = F32(125, 0) /\ r = F32(126, 8388604) /\ i = F32Half -> F32(126, 6291452)
      [] s = F32(125, 0) /\ r = F32(126, 8388605) /\ i = F32One -> F32(127, 6291453)
      [] s = F32(125, 0) /\ r = F32(126, 8388605) /\ i = F32Half -> F32(126, 6291453)
      [] s = F32(125, 0) /\ r = F32(126, 8388606) /\ i = F32One -> F32(127, 6291454)
      [] s = F32(125, 0) /\ r = F32(126, 8388606) /\ i = F32Half -> F32(126, 6291454)
      [] s = F32(125, 0) /\ r = F32(127, 0) /\ i = F32One -> F32(127, 6291456)
      [] s = F32(125, 0) /\ r = F32(127, 0) /\ i = F32Half -> F32(126, 6291456)
      [] s = F32(125, 2796203) /\ r = F32(126, 0) /\ i = F32One -> F32(126, 2796202)
      [] s = F32(125, 2796203) /\ r = F32(126, 0) /\ i = F32Half -> F32(125, 2796202)
      [] s = F32(125, 2796203) /\ r = F32(126, 2752458) /\ i = F32One -> F32(126, 8301118)
      [] s = F32(125, 2796203) /\ r = F32(126, 2752458) /\ i = F32Half -> F32(125, 8301118)
      [] s = F32(125, 2796203) /\ r = F32(126, 3669454) /\ i = F32One -> F32(127, 873251)
      [] s = F32(125, 2796203) /\ r = F32(126, 3669454) /\ i = F32Half -> F32(126, 873251)
      [] s = F32(125, 2796203) /\ r = F32(126, 4159271) /\ i = F32One -> F32(127, 1363068)
      [] s = F32(125, 2796203) /\ r = F32(126, 4159271) /\ i = F32Half -> F32(126, 1363068)
      [] s = F32(125, 2796203) /\ r = F32(126, 4474854) /\ i = F32One -> F32(127, 1678651)
      [] s = F32(125, 2796203) /\ r = F32(126, 4474854) /\ i = F32Half -> F32(126, 1678651)
      [] s = F32(125, 2796203) /\ r = F32(126, 8388595) /\ i = F32One -> F32(127, 5592392)
      [] s = F32(125, 2796203) /\ r = F32(126, 8388595) /\ i = F32Half -> F32(126, 5592392)
      [] s = F32(125, 2796203) /\ r = F32(126, 8388599) /\ i = F32One -> F32(127, 5592396)
      [] s = F32(125, 2796203) /\ r = F32(126, 8388599) /\ i = F32Half -> F32(126, 5592396)
      [] s = F32(125, 2796203) /\ r = F32(126, 8388600) /\ i = F32One -> F32(127, 5592397)
      [] s = F32(125, 2796203) /\ r = F32(126, 8388600) /\ i = F32Half -> F32(126, 5592397)
      [] s = F32(125, 2796203) /\ r = F32(126, 8388602) /\ i = F32One -> F32(127, 5592399)
      [] s = F32(125, 2796203) /\ r = F32(126, 8388602) /\ i = F32Half -> F32(126, 5592399)
      [] s = F32(125, 2796203) /\ r = F32(126, 8388603) /\ i = F32One -> F32(127, 5592400)
      [] s = F32(125, 2796203) /\ r = F32(126, 8388603) /\ i = F32Half -> F32(126, 5592400)
      [] s = F32(125, 2796203) /\ r = F32(126, 8388604) /\ i = F32One -> F32(127, 5592401)
      [] s = F32(125, 2796203) /\ r = F32(126, 8388604) /\ i = F32Half -> F32(126, 5592401)
      [] s = F32(125, 2796203) /\ r = F32(126, 8388605) /\ i = F32One -> F32(127, 5592402)
      [] s = F32(125, 2796203) /\ r = F32(126, 8388605) /\ i = F32Half -> F32(126, 5592402)
      [] s = F32(125, 2796203) /\ r = F32(126, 8388606) /\ i = F32One -> F32(127, 5592403)
      [] s = F32(125, 2796203) /\ r = F32(126, 8388606) /\ i = F32Half -> F32(126, 5592403)
      [] s = F32(125, 2796203) /\ r = F32(127, 0) /\ i = F32One -> F32(127, 5592405)
      [] s = F32(125, 2796203) /\ r = F32(127, 0) /\ i = F32Half -> F32(126, 5592405)
      [] s = F32(126, 0) /\ r = F32(126, 0) /\ i = F32One -> F32(126, 0)
      [] s = F32(126, 0) /\ r = F32(126, 0) /\ i = F32Half -> F32(125, 0)
      [] s = F32(126, 0) /\ r = F32(126, 2752458) /\ i = F32One -> F32(126, 5504916)
      [] s = F32(126, 0) /\ r = F32(126, 2752458) /\ i = F32Half -> F32(125, 5504916)
      [] s = F32(126, 0) /\ r = F32(126, 3669454) /\ i = F32One -> F32(126, 7338908)
      [] s = F32(126, 0) /\ r = F32(126, 3669454) /\ i = F32Half -> F32(125, 7338908)
      [] s = F32(126, 0) /\ r = F32(126, 4159271) /\ i = F32One -> F32(126, 8318542)
      [] s = F32(126, 0) /\ r = F32(126, 4159271) /\ i = F32Half -> F32(125, 8318542)
      [] s = F32(126, 0) /\ r = F32(126, 4474854) /\ i = F32One -> F32(127, 280550)
      [] s = F32(126, 0) /\ r = F32(126, 4474854) /\ i = F32Half -> F32(126, 280550)
      [] s = F32(126, 0) /\ r = F32(126, 8388595) /\ i = F32One -> F32(127, 4194291)
      [] s = F32(126, 0) /\ r = F32(126, 8388595) /\ i = F32Half -> F32(126, 4194291)
      [] s = F32(126, 0) /\ r = F32(126, 8388599) /\ i = F32One -> F32(127, 4194295)
      [] s = F32(126, 0) /\ r = F32(126, 8388599) /\ i = F32Half -> F32(126, 4194295)
      [] s = F32(126, 0) /\ r = F32(126, 8388600) /\ i = F32One -> F32(127, 4194296)
      [] s = F32(126, 0) /\ r = F32(126, 8388600) /\ i = F32Half -> F32(126, 4194296)
      [] s = F32(126, 0) /\ r = F32(126, 8388602) /\ i = F32One -> F32(127, 4194298)
      [] s = F32(126, 0) /\ r = F32(126, 8388602) /\ i = F32Half -> F32(126, 4194298)
      [] s = F32(126, 0) /\ r = F32(126, 8388603) /\ i = F32One -> F32(127, 4194299)
      [] s = F32(126, 0) /\ r = F32(126, 8388603) /\ i = F32Half -> F32(126, 4194299)
      [] s = F32(126, 0) /\ r = F32(126, 8388604) /\ i = F32One -> F32(127, 4194300)
      [] s = F32(126, 0) /\ r = F32(126, 8388604) /\ i = F32Half -> F32(126, 4194300)
      [] s = F32(126, 0) /\ r = F32(126, 8388605) /\ i = F32One -> F32(127, 4194301)
      [] s = F32(126, 0) /\ r = F32(126, 8388605) /\ i = F32Half -> F32(126, 4194301)
      [] s = F32(126, 0) /\ r = F32(126, 8388606) /\ i = F32One -> F32(127, 4194302)
      [] s = F32(126, 0) /\ r = F32(126, 8388606) /\ i = F32Half -> F32(126, 4194302)
      [] s = F32(126, 0) /\ r = F32(127, 0) /\ i = F32One -> F32(127, 4194304)
      [] s = F32(126, 0) /\ r = F32(127, 0) /\ i = F32Half -> F32(126, 4194304)
      [] s = F32(127, 0) /\ r = F32(126, 0) /\ i = F32One -> F32(0, 0)
      [] s = F32(127, 0) /\ r = F32(126, 0) /\ i = F32Half -> F32(0, 0)
      [] s = F32(127, 0) /\ r = F32(126, 2752458) /\ i = F32One -> F32(125, 2621224)
      [] s = F32(127, 0) /\ r = F32(126, 2752458) /\ i = F32Half -> F32(124, 2621224)
      [] s = F32(127, 0) /\ r = F32(126, 3669454) /\ i = F32One -> F32(125, 6289208)
      [] s = F32(127, 0) /\ r = F32(126, 3669454) /\ i = F32Half -> F32(124, 6289208)
      [] s = F32(127, 0) /\ r = F32(126, 4159271) /\ i = F32One -> F32(125, 8248476)
      [] s = F32(127, 0) /\ r = F32(126, 4159271) /\ i = F32Half -> F32(124, 8248476)
      [] s = F32(127, 0) /\ r = F32(126, 4474854) /\ i = F32One -> F32(126, 561100)
      [] s = F32(127, 0) /\ r = F32(126, 4474854) /\ i = F32Half -> F32(125, 561100)
      [] s = F32(127, 0) /\ r = F32(126, 8388595) /\ i = F32One -> F32(126, 8388582)
      [] s = F32(127, 0) /\ r = F32(126, 8388595) /\ i = F32Half -> F32(125, 8388582)
      [] s = F32(127, 0) /\ r = F32(126, 8388599) /\ i = F32One -> F32(126, 8388590)
      [] s = F32(127, 0) /\ r = F32(126, 8388599) /\ i = F32Half -> F32(125, 8388590)
      [] s = F32(127, 0) /\ r = F32(126, 8388600) /\ i = F32One -> F32(126, 8388592)
      [] s = F32(127, 0) /\ r = F32(126, 8388600) /\ i = F32Half -> F32(125, 8388592)
      [] s = F32(127, 0) /\ r = F32(126, 8388602) /\ i = F32One -> F32(126, 8388596)
      [] s = F32(127, 0) /\ r = F32(126, 8388602) /\ i = F32Half -> F32(125, 8388596)
      [] s = F32(127, 0) /\ r = F32(126, 8388603) /\ i = F32One -> F32(126, 8388598)
      [] s = F32(127, 0) /\ r = F32(126, 8388603) /\ i = F32Half -> F32(125, 8388598)
      [] s = F32(127, 0) /\ r = F32(126, 8388604) /\ i = F32One -> F32(126, 8388600)
      [] s = F32(127, 0) /\ r = F32(126, 8388604) /\ i = F32Half -> F32(125, 8388600)
      [] s = F32(127, 0) /\ r = F32(126, 8388605) /\ i = F32One -> F32(126, 8388602)
      [] s = F32(127, 0) /\ r = F32(126, 8388605) /\ i = F32Half -> F32(125, 8388602)
      [] s = F32(127, 0) /\ r = F32(126, 8388606) /\ i = F32One -> F32(126, 8388604)
      [] s = F32(127, 0) /\ r = F32(126, 8388606) /\ i = F32Half -> F32(125, 8388604)
      [] s = F32(127, 0) /\ r = F32(127, 0) /\ i = F32One -> F32(127, 0)
      [] s = F32(127, 0) /\ r = F32(127, 0) /\ i = F32Half -> F32(126, 0)

F32Two == F32(128, 0)                   \* 2.0f

\* ScoringConfig(30.0f, 2.0f): a time weight above 1.
HeavyScoring ==
    [set |-> TRUE, decay_half_life_days |-> F32Thirty,
     time_weight |-> F32Two, min_weight |-> F32Zero]

\* ScoringConfig(30.0f, 0.0f) and ScoringConfig(30.0f, 1.0f): the ends of
\* the unit interval of time weights.
SimilarityOnly ==
    [set |-> TRUE, decay_half_life_days |-> F32Thirty,
     time_weight |-> F32Zero, min_weight |-> F32Zero]

RecencyOnly ==
    [set |-> TRUE, decay_half_life_days |-> F32Thirty,
     time_weight |-> F32One, min_weight |-> F32Zero]

\* x * i for an importance i of 1.0f or 0.5f: halving lowers the exponent.
Scaled(x, i) ==
    IF i = F32One \/ x = F32Zero THEN x ELSE x - F32(1, 0)

\* ((1.0f - time_weight) * s + time_weight * r) * i.  Under the weights 0
\* and 1 one product is 0 and the other its factor, so the sum is s or r.
Weighted(time_weight, s, r, i) ==
    CASE time_weight = F32ThreeTenths -> Blend(s, r, i)
      [] time_weight = F32Two -> BlendTwo(s, r, i)
      [] time_weight = F32Zero -> Scaled(s, i)
      [] time_weight = F32One -> Scaled(r, i)

\* Scorer::calculate_score under a half-life of 30 days.
calculate_score(distance, meta, config, now_ts) ==
    LET recency == Recency(AgeSeconds(now_ts, meta.timestamp),
                           meta.recall_count)
    IN Weighted(config.time_weight, Similarity(distance),
                IF recency < config.min_weight THEN config.min_weight
                ELSE recency,
                meta.importance)

\* context_chain's node score, base * importance * stickiness, by base,
\* importance and recall_count.
ChainScore(base, importance, recall_count) ==
    CASE base = F32Zero /\ importance = F32One /\ recall_count = 0 -> F32(0, 0)
      [] base = F32Zero /\ importance = F32One /\ recall_count = 1 -> F32(0, 0)
      [] base = F32Zero /\ importance = F32One /\ recall_count = 2 -> F32(0, 0)
      [] base = F32Zero /\ importance = F32One /\ recall_count = 3 -> F32(0, 0)
      [] base = F32Zero /\ importance = F32One /\ recall_count = 4 -> F32(0, 0)
      [] base = F32Zero /\ importance = F32Half /\ recall_count = 0 -> F32(0, 0)
      [] base = F32Zero /\ importance = F32Half /\ recall_count = 1 -> F32(0, 0)
      [] base = F32Zero /\ importance = F32Half /\ recall_count = 2 -> F32(0, 0)
      [] base = F32Zero /\ importance = F32Half /\ recall_count = 3 -> F32(0, 0)
      [] base = F32Zero /\ importance = F32Half /\ recall_count = 4 -> F32(0, 0)
      [] base = F32(127, 0) /\ importance = F32One /\ recall_count = 0 -> F32(127, 0)
      [] base = F32(127, 0) /\ importance = F32One /\ recall_count = 1 -> F32(127, 5814540)
      [] base = F32(127, 0) /\ importance = F32One /\ recall_count = 2 -> F32(128, 413610)
      [] base = F32(127, 0) /\ importance = F32One /\ recall_count = 3 -> F32(128, 1620236)
      [] base = F32(127, 0) /\ importance = F32One /\ recall_count = 4 -> F32(128, 2556168)
      [] base = F32(127, 0) /\ importance = F32Half /\ recall_count = 0 -> F32(126, 0)
      [] base = F32(127, 0) /\ importance = F32Half /\ recall_count = 1 -> F32(126, 5814540)
      [] base = F32(127, 0) /\ importance = F32Half /\ recall_count = 2 -> F32(127, 413610)
      [] base = F32(127, 0) /\ importance = F32Half /\ recall_count = 3 -> F32(127, 1620236)
      [] base = F32(127, 0) /\ importance = F32Half /\ recall_count = 4 -> F32(127, 2556168)
      [] base = F32(126, 0) /\ importance = F32One /\ recall_count = 0 -> F32(126, 0)
      [] base = F32(126, 0) /\ importance = F32One /\ recall_count = 1 -> F32(126, 5814540)
      [] base = F32(126, 0) /\ importance = F32One /\ recall_count = 2 -> F32(127, 413610)
      [] base = F32(126, 0) /\ importance = F32One /\ recall_count = 3 -> F32(127, 1620236)
      [] base = F32(126, 0) /\ importance = F32One /\ recall_count = 4 -> F32(127, 2556168)
      [] base = F32(126, 0) /\ importance = F32Half /\ recall_count = 0 -> F32(125, 0)
      [] base = F32(126, 0) /\ importance = F32Half /\ recall_count = 1 -> F32(125, 5814540)
      [] base = F32(126, 0) /\ importance = F32Half /\ recall_count = 2 -> F32(126, 413610)
      [] base = F32(126, 0) /\ importance = F32Half /\ recall_count = 3 -> F32(126, 1620236)
      [] base = F32(126, 0) /\ importance = F32Half /\ recall_count = 4 -> F32(126, 2556168)
      [] base = F32(125, 2796203) /\ importance = F32One /\ recall_count = 0 -> F32(125, 2796203)
      [] base = F32(125, 2796203) /\ importance = F32One /\ recall_count = 1 -> F32(126, 1080158)
      [] base = F32(125, 2796203) /\ importance = F32One /\ recall_count = 2 -> F32(126, 3347683)
      [] base = F32(125, 2796203) /\ importance = F32One /\ recall_count = 3 -> F32(126, 4956518)
      [] base = F32(125, 2796203) /\ importance = F32One /\ recall_count = 4 -> F32(126, 6204427)
      [] base = F32(125, 2796203) /\ importance = F32Half /\ recall_count = 0 -> F32(124, 2796203)
      [] base = F32(125, 2796203) /\ importance = F32Half /\ recall_count = 1 -> F32(125, 1080158)
      [] base = F32(125, 2796203) /\ importance = F32Half /\ recall_count = 2 -> F32(125, 3347683)
      [] base = F32(125, 2796203) /\ importance = F32Half /\ recall_count = 3 -> F32(125, 4956518)
      [] base = F32(125, 2796203) /\ importance = F32Half /\ recall_count = 4 -> F32(125, 6204427)
      [] base = F32(125, 0) /\ importance = F32One /\ recall_count = 0 -> F32(125, 0)
      [] base = F32(125, 0) /\ importance = F32One /\ recall_count = 1 -> F32(125, 5814540)
      [] base = F32(125, 0) /\ importance = F32One /\ recall_count = 2 -> F32(126, 413610)
      [] base = F32(125, 0) /\ importance = F32One /\ recall_count = 3 -> F32(126, 1620236)
      [] base = F32(125, 0) /\ importance = F32One /\ recall_count = 4 -> F32(126, 2556168)
      [] base = F32(125, 0) /\ importance = F32Half /\ recall_count = 0 -> F32(124, 0)
      [] base = F32(125, 0) /\ importance = F32Half /\ recall_count = 1 -> F32(124, 5814540)
      [] base = F32(125, 0) /\ importance = F32Half /\ recall_count = 2 -> F32(125, 413610)
      [] base = F32(125, 0) /\ importance = F32Half /\ recall_count = 3 -> F32(125, 1620236)
      [] base = F32(125, 0) /\ importance = F32Half /\ recall_count = 4 -> F32(125, 2556168)
      [] base = F32(124, 5033165) /\ importance = F32One /\ recall_count = 0 -> F32(124, 5033165)
      [] base = F32(124, 5033165) /\ importance = F32One /\ recall_count = 1 -> F32(125, 2973911)
      [] base = F32(124, 5033165) /\ importance = F32One /\ recall_count = 2 -> F32(125, 5694941)
      [] base = F32(124, 5033165) /\ importance = F32One /\ recall_count = 3 -> F32(125, 7625543)
      [] base = F32(124, 5033165) /\ importance = F32One /\ recall_count = 4 -> F32(126, 367213)
      [] base = F32(124, 5033165) /\ importance = F32Half /\ recall_count = 0 -> F32(123, 5033165)
      [] base = F32(124, 5033165) /\ importance = F32Half /\ recall_count = 1 -> F32(124, 2973911)
      [] base = F32(124, 5033165) /\ importance = F32Half /\ recall_count = 2 -> F32(124, 5694941)
      [] base = F32(124, 5033165) /\ importance = F32Half /\ recall_count = 3 -> F32(124, 7625543)
      [] base = F32(124, 5033165) /\ importance = F32Half /\ recall_count = 4 -> F32(125, 367213)

----------------------------------------------------------------------------
(* Nearest-neighbour search over one modality index.                       *)

Min(a, b) == IF a < b THEN a ELSE b

\* L2Space: squared Euclidean distance over the index's dim components.
RECURSIVE L2Sqr(_, _, _)
L2Sqr(a, b, n) ==
    IF n = 0 THEN 0
    ELSE (F32Int(a[n]) - F32Int(b[n])) * (F32Int(a[n]) - F32Int(b[n]))
         + L2Sqr(a, b, n - 1)

\* What the distance function reads through q.data(): dim floats.  A query
\* shorter than dim is read past its end, an indeterminate value per
\* missing component; a longer one is read up to dim.
QueryViews(q, dim) ==
    {v \in [1..dim -> {F32Zero, F32One}] :
        \A i \in 1..Min(Len(q), dim) : v[i] = q[i]}

\* Order of (dist, label) pairs, as std::pair compares them.
PairLess(d1, l1, d2, l2) == d1 < d2 \/ (d1 = d2 /\ l1 < l2)

\* hnswlib searchKnn(q, k): the k nearest elements as a priority queue,
\* in the order the caller pops it (largest (dist, label) first).  Equal
\* distances at the cut are resolved by tie: towards low or high labels.
searchKnn(idx, q, k, tie) ==
    LET E == 1..Len(idx.elems)
        d(i) == L2Sqr(q, idx.elems[i].vec, idx.dim)
        l(i) == idx.elems[i].label
        before(i, j) ==
            \/ d(i) < d(j)
            \/ d(i) = d(j) /\ (IF tie = "low" THEN l(i) < l(j) ELSE l(i) > l(j))
        S == {i \in E : Cardinality({j \in E : before(j, i)}) < k}
        pos(i) == 1 + Cardinality({j \in S : PairLess(d(i), l(i), d(j), l(j))})
    IN [p \in 1..Cardinality(S) |->
           LET i == CHOOSE i \in S : pos(i) = p
           IN [dist |-> d(i), label |-> l(i)]]

\* Mutant: a loop that touches every record of the table.
TouchEveryRecord(ms, hits, j, now) ==
    [id \in DOMAIN ms |-> [ms[id] EXCEPT !.recall_count = @ + 1,
                                         !.last_recalled_at = now]]

\* touch() on every popped hit, in pop order.
RECURSIVE TouchHits(_, _, _, _)
TouchHits(ms, hits, j, now) ==
    IF j > Len(hits) THEN ms
    ELSE TouchHits(touched(ms, hits[j].label, now), hits, j + 1, now)

\* No touched record is at the model's recall cap.
BelowRecallCap(hits) ==
    \A j \in 1..Len(hits) :
        Has(metadata_store_, hits[j].label)
            => metadata_store_[hits[j].label].recall_count < MaxRecall

\* The orders std::sort may leave a sequence in under the comparator
\* a.score > b.score: every arrangement with no rising score.  The sort
\* is not stable, so elements of equal score come in any order.
ByScoreDescending(s) ==
    LET n == Len(s)
        perms == {p \in [1..n -> 1..n] : \A i, j \in 1..n : i # j => p[i] # p[j]}
    IN {[i \in 1..n |-> s[p[i]]] :
          p \in {p \in perms : \A i \in 1..(n - 1) : s[p[i]].score >= s[p[i + 1]].score}}

\* Mutant: a result that is never cut.
KeepAll(s, k) == s

\* results.resize(k) when more than k results were built.
Truncate(s, k) == IF Len(s) > k THEN SubSeq(s, 1, k) ELSE s

\* The elements of an index the filter functor lets through.
Filtered(idx, filter, ms) ==
    LET pass(e) == FilterWrapper(filter, ms, e.label)
    IN [idx EXCEPT !.elems = SelectSeq(@, pass)]

\* Mutant: an absent record read as one with a source.
MetadataOfSourced(ms, id) ==
    IF Has(ms, id) THEN ms[id]
    ELSE [DefaultMetadata EXCEPT !.source = StrNs]

\* The copy of the record of id, or a default-constructed Metadata.
MetadataOf(ms, id) == IF Has(ms, id) THEN ms[id] ELSE DefaultMetadata

\* The results vector before it is sorted: one SearchResult per popped
\* hit, scored on the record as touch() left it.
Results(ms, hits, scoring, now) ==
    [j \in 1..Len(hits) |->
        [id |-> hits[j].label,
         score |-> IF scoring.set
                   THEN calculate_score(hits[j].dist, MetadataOf(ms, hits[j].label),
                                        scoring, now)
                   ELSE Similarity(hits[j].dist),
         metadata |-> MetadataOf(ms, hits[j].label)]]

----------------------------------------------------------------------------
(* DB::search.                                                             *)

\* Mutant: a search that registers the modality it is asked about.
search_registering(q, k, filter, scoring, modality, now, tie) ==
    /\ modality_indices_' = get_or_create_index(modality_indices_, modality,
                                                Len(q))
    /\ last' = [op |-> "search", k |-> k, filter |-> filter,
                scoring |-> scoring, modality |-> modality, now |-> now,
                err |-> "none", hits |-> <<>>, results |-> <<>>]
    /\ UNCHANGED <<metadata_store_, reverse_index_>>

search(q, k, filter, scoring, modality, now, tie) ==
    LET call == [op |-> "search", k |-> k, filter |-> filter,
                 scoring |-> scoring, modality |-> modality,
                 now |-> now, err |-> "none"]
    IN IF ~Has(modality_indices_, modality)
       THEN /\ last' = call @@ [hits |-> <<>>, results |-> <<>>]
            /\ UNCHANGED store
       ELSE \E v \in QueryViews(q, modality_indices_[modality].dim) :
            \E hits \in {searchKnn(Filtered(modality_indices_[modality], filter,
                                            metadata_store_),
                                   v, IF scoring.set THEN k * 3 ELSE k, tie)} :
              /\ BelowRecallCap(hits)
              /\ metadata_store_' = TouchHits(metadata_store_, hits, 1, now)
              /\ \E results \in {Results(metadata_store_', hits, scoring, now)} :
                 \E sorted \in ByScoreDescending(results) :
                    last' = call @@ [hits |-> hits,
                                     results |-> Truncate(sorted, k)]
              /\ UNCHANGED <<modality_indices_, reverse_index_>>

----------------------------------------------------------------------------
(* DB::context_chain.                                                      *)

ContextEdge(source, target, rel_type, weight) ==
    [source |-> source, target |-> target, rel_type |-> rel_type,
     weight |-> weight]

\* operator< of std::string: lexicographic order of the bytes.
RECURSIVE StrLess(_, _)
StrLess(a, b) ==
    IF b = <<>> THEN FALSE
    ELSE IF a = <<>> THEN TRUE
    ELSE IF Head(a) # Head(b) THEN Head(a) < Head(b)
    ELSE StrLess(Tail(a), Tail(b))

\* std::tie(source, target, rel_type) < std::tie(...).
TripleLess(a, b) ==
    \/ a.source < b.source
    \/ a.source = b.source /\ a.target < b.target
    \/ a.source = b.source /\ a.target = b.target
         /\ StrLess(a.rel_type, b.rel_type)

SameTriple(a, b) ==
    a.source = b.source /\ a.target = b.target /\ a.rel_type = b.rel_type

\* visited[id] = hop and bfs.push({id, hop}), when id is not visited yet.
Visit(st, id, hop) ==
    IF Has(st.visited, id) THEN st
    ELSE [st EXCEPT !.visited = Put(@, id, hop),
                    !.bfs = Append(@, [id |-> id, hop |-> hop])]

\* The loop over the outgoing edges of cur, from the i-th on.
RECURSIVE Outgoing(_, _, _, _, _)
Outgoing(st, cur, hop, edges, i) ==
    IF i > Len(edges) THEN st
    ELSE Outgoing(Visit([st EXCEPT !.edges =
                             Append(@, ContextEdge(cur, edges[i].target_id,
                                                   edges[i].rel_type,
                                                   edges[i].weight))],
                        edges[i].target_id, hop + 1),
                  cur, hop, edges, i + 1)

\* The loop over the incoming edges of cur, from the i-th on.
RECURSIVE Incoming(_, _, _, _, _)
Incoming(st, cur, hop, incoming, i) ==
    IF i > Len(incoming) THEN st
    ELSE Incoming(Visit([st EXCEPT !.edges =
                             Append(@, ContextEdge(incoming[i].source_id, cur,
                                                   incoming[i].rel_type,
                                                   incoming[i].weight))],
                        incoming[i].source_id, hop + 1),
                  cur, hop, incoming, i + 1)

\* One popped node below the hop limit: its outgoing, then incoming edges.
Expand(st, ms, ri, cur, hop) ==
    Incoming(Outgoing(st, cur, hop,
                      IF Has(ms, cur) THEN ms[cur].edges ELSE <<>>, 1),
             cur, hop, IF Has(ri, cur) THEN ri[cur] ELSE <<>>, 1)

\* bfs.pop().
Pop(st) == [st EXCEPT !.bfs = Tail(@)]

\* Step 2, the while loop over the queue.
RECURSIVE Bfs(_, _, _, _)
Bfs(st, ms, ri, hops) ==
    IF st.bfs = <<>> THEN st
    ELSE IF Head(st.bfs).hop >= hops THEN Bfs(Pop(st), ms, ri, hops)
    ELSE Bfs(Expand(Pop(st), ms, ri, Head(st.bfs).id, Head(st.bfs).hop),
             ms, ri, hops)

\* The loop that seeds visited and the queue from sim_scores, from the
\* j-th hit on.  The map is walked in an unspecified order; the outcome of
\* the search does not depend on it, since every seed is queued at hop 0
\* ahead of every expansion.
RECURSIVE Seeded(_, _, _)
Seeded(st, hits, j) ==
    IF j > Len(hits) THEN st
    ELSE Seeded(Visit(st, hits[j].label, 0), hits, j + 1)

\* visited and collected_edges when the queue has run empty.
Walk(ms, ri, hits, hops) ==
    Bfs(Seeded([visited |-> EmptyMap, bfs |-> <<>>, edges |-> <<>>], hits, 1),
        ms, ri, hops)

\* Step 3: the ContextNode of a visited id.
ContextNode(ms, hits, visited, id) ==
    LET seed == {j \in 1..Len(hits) : hits[j].label = id}
        sim == IF seed = {} THEN F32Zero
               ELSE Similarity(hits[CHOOSE j \in seed : TRUE].dist)
    IN [id |-> id,
        score |-> ChainScore(IF visited[id] = 0 THEN sim
                             ELSE Similarity(visited[id]),
                             MetadataOf(ms, id).importance,
                             MetadataOf(ms, id).recall_count),
        similarity |-> sim,
        hop |-> visited[id],
        metadata |-> MetadataOf(ms, id)]

\* result.nodes before the sort, in one order of the visited map.
Nodes(ms, hits, visited) ==
    LET ids == DOMAIN visited
        pos(id) == 1 + Cardinality({i \in ids : i < id})
    IN [p \in 1..Cardinality(ids) |->
           ContextNode(ms, hits, visited, CHOOSE id \in ids : pos(id) = p)]

\* The edge lists std::sort and std::unique may leave: the collected
\* triples in ascending order, each once, standing for it any one of the
\* collected edges with that triple.
RECURSIVE Unique(_, _)
Unique(collected, done) ==
    LET rest == {e \in collected : \A d \in done : ~SameTriple(e, d)}
        least == {e \in rest : \A o \in rest : ~TripleLess(o, e)}
    IN IF rest = {} THEN {<<>>}
       ELSE UNION {{<<e>> \o tail : tail \in Unique(collected, done \cup {e})} :
                      e \in least}

context_chain(q, k, hops, modality, now, tie) ==
    LET call == [op |-> "context_chain", k |-> k, hops |-> hops,
                 modality |-> modality, now |-> now, err |-> "none"]
    IN IF ~Has(modality_indices_, modality)
       THEN /\ last' = call @@ [hits |-> <<>>, nodes |-> <<>>, edges |-> <<>>]
            /\ UNCHANGED store
       ELSE \E v \in QueryViews(q, modality_indices_[modality].dim) :
            \E hits \in {searchKnn(modality_indices_[modality], v, k, tie)} :
            \E walk \in {Walk(metadata_store_, reverse_index_, hits, hops)} :
              /\ BelowRecallCap(hits)
              /\ metadata_store_' = TouchHits(metadata_store_, hits, 1, now)
              /\ \E unsorted \in {Nodes(metadata_store_', hits, walk.visited)} :
                 \E nodes \in ByScoreDescending(unsorted),
                    edges \in Unique(Range(walk.edges), {}) :
                    last' = call @@ [hits |-> hits, nodes |-> nodes,
                                     edges |-> edges]
              /\ UNCHANGED <<modality_indices_, reverse_index_>>

----------------------------------------------------------------------------
(* DB::auto_link.                                                          *)

\* The inner while loop: the popped neighbours hits[j..] of from_id.
RECURSIVE AutoLinkHits(_, _, _, _, _, _)
AutoLinkHits(acc, from_id, hits, j, threshold, rel_type) ==
    IF j > Len(hits) THEN acc
    ELSE LET to_id == hits[j].label
             sim == Similarity(hits[j].dist)
         IN IF to_id = from_id \/ sim < threshold
            THEN AutoLinkHits(acc, from_id, hits, j + 1, threshold, rel_type)
            ELSE LET ms1 == IF Has(acc.ms, from_id) THEN acc.ms
                            ELSE Put(acc.ms, from_id, DefaultMetadata)
                     next ==
                         IF HasEdge(ms1[from_id].edges, to_id, rel_type)
                         THEN [acc EXCEPT !.ms = ms1]
                         ELSE [ms |-> [ms1 EXCEPT ![from_id].edges =
                                          Append(@, Edge(to_id, rel_type, sim))],
                               ri |-> PushIncoming(acc.ri, to_id,
                                          IncomingEdge(from_id, rel_type, sim)),
                               links_created |-> acc.links_created + 1]
                 IN AutoLinkHits(next, from_id, hits, j + 1, threshold, rel_type)

\* The outer for loop: the elements i.. of the index, in internal order.
RECURSIVE AutoLinkElems(_, _, _, _, _, _, _)
AutoLinkElems(acc, idx, i, threshold, rel_type, candidates, tie) ==
    IF i > Len(idx.elems) THEN acc
    ELSE AutoLinkElems(
             AutoLinkHits(acc, idx.elems[i].label,
                          searchKnn(idx, idx.elems[i].vec, candidates + 1, tie),
                          1, threshold, rel_type),
             idx, i + 1, threshold, rel_type, candidates, tie)

auto_link(modality, threshold, rel_type, candidates, tie) ==
    LET call == [op |-> "auto_link", modality |-> modality,
                 threshold |-> threshold, rel_type |-> rel_type,
                 candidates |-> candidates, err |-> "none"]
        acc0 == [ms |-> metadata_store_, ri |-> reverse_index_,
                 links_created |-> 0]
    IN IF ~Has(modality_indices_, modality)
       THEN /\ last' = call @@ [ret |-> 0]
            /\ UNCHANGED store
       ELSE LET r == AutoLinkElems(acc0, modality_indices_[modality], 1,
                                   threshold, rel_type, candidates, tie)
            IN /\ metadata_store_' = r.ms
               /\ reverse_index_' = r.ri
               /\ last' = call @@ [ret |-> r.links_created]
               /\ UNCHANGED modality_indices_

----------------------------------------------------------------------------
(* DB::export_graph_json.  The document is modelled by its content, the   *)
(* node objects and the edge objects in the order they are written; the    *)
(* JSON text (escape_json, number formatting) is not.                      *)

\* The test the three loops share: the record is not skipped.
Exported(meta, ns_filter, eid_filter) ==
    /\ ~(ns_filter # <<>> /\ meta.namespace_id # ns_filter)
    /\ ~(eid_filter # <<>> /\ meta.entity_id # eid_filter)

\* The node object written for a record.
GraphNode(id, meta) ==
    [id |-> id, label |-> SubSeq(meta.content, 1, Min(Len(meta.content), 60)),
     namespace_id |-> meta.namespace_id, entity_id |-> meta.entity_id,
     type |-> meta.type, source |-> meta.source,
     importance |-> meta.importance, recall_count |-> meta.recall_count,
     timestamp |-> meta.timestamp, attributes |-> meta.attributes]

\* The edge object written for edge e of from_id.
GraphEdge(from_id, e) ==
    [source |-> from_id, target |-> e.target_id, rel_type |-> e.rel_type,
     weight |-> e.weight]

\* exported_ids.
ExportedIds(ms, ns_filter, eid_filter) ==
    {id \in DOMAIN ms : Exported(ms[id], ns_filter, eid_filter)}

\* Mutant: an edge loop that emits every edge of an exported record.
EmittedAlways(exported_ids, e) == TRUE

\* The test of the edge loop: the target is an exported node.
Emitted(exported_ids, e) == e.target_id \in exported_ids

\* The first loop, over the records ids[i..] in map order.
RECURSIVE GraphNodes(_, _, _, _, _)
GraphNodes(ms, ids, i, ns_filter, eid_filter) ==
    IF i > Len(ids) THEN <<>>
    ELSE (IF Exported(ms[ids[i]], ns_filter, eid_filter)
          THEN <<GraphNode(ids[i], ms[ids[i]])>>
          ELSE <<>>)
         \o GraphNodes(ms, ids, i + 1, ns_filter, eid_filter)

\* The inner edge loop, over the edges of from_id.
EdgesFrom(from_id, edges, exported_ids) ==
    LET emitted(e) == Emitted(exported_ids, e)
        kept == SelectSeq(edges, emitted)
    IN [j \in 1..Len(kept) |-> GraphEdge(from_id, kept[j])]

\* The third loop, over the records ids[i..] in map order.
RECURSIVE GraphEdges(_, _, _, _, _)
GraphEdges(ms, ids, i, ns_filter, eid_filter) ==
    IF i > Len(ids) THEN <<>>
    ELSE (IF Exported(ms[ids[i]], ns_filter, eid_filter)
          THEN EdgesFrom(ids[i], ms[ids[i]].edges,
                         ExportedIds(ms, ns_filter, eid_filter))
          ELSE <<>>)
         \o GraphEdges(ms, ids, i + 1, ns_filter, eid_filter)

\* ids is the order in which the map is walked.
export_graph_json(ns_filter, eid_filter, ids) ==
    /\ last' = [op |-> "export_graph_json", ns_filter |-> ns_filter,
                eid_filter |-> eid_filter, err |-> "none",
                nodes |-> GraphNodes(metadata_store_, ids, 1, ns_filter,
                                     eid_filter),
                edges |-> GraphEdges(metadata_store_, ids, 1, ns_filter,
                                     eid_filter)]
    /\ UNCHANGED store

----------------------------------------------------------------------------
(* Bytes.  Integers are written little-endian at their exact width.        *)

Pow256(i) == CASE i = 0 -> 1 [] i = 1 -> 256 [] i = 2 -> 65536 [] OTHER -> 16777216

\* 2^31 - 1: stands for every decoded value of 2^31 or more.
Huge == 127 * Pow256(3) + (Pow256(3) - 1)

\* The w bytes of n, least significant first.
LE(n, w) == [i \in 1..w |-> IF i <= 4 THEN (n \div Pow256(i - 1)) % 256 ELSE 0]

\* The integer held by a little-endian byte string.
Dec(bs) ==
    IF \/ \E i \in 5..Len(bs) : bs[i] # 0
       \/ Len(bs) >= 4 /\ bs[4] >= 128
    THEN Huge
    ELSE LET b(i) == IF i <= Len(bs) THEN bs[i] * Pow256(i - 1) ELSE 0
         IN b(1) + b(2) + b(3) + b(4)

Zeros(n) == [i \in 1..n |-> 0]

\* static_cast<uint16_t>, static_cast<uint8_t>(std::min(n, 255)).
U16(n) == n % 65536

RECURSIVE Concat(_, _)
\* The concatenation of f(1) .. f(n).
Concat(f, n) == IF n = 0 THEN <<>> ELSE Concat(f, n - 1) \o f[n]

\* The elements of a finite set of byte strings or ids, in an order fixed
\* by the implementation's hash table.
RECURSIVE Enumerate(_)
Enumerate(S) ==
    IF S = {} THEN <<>>
    ELSE LET x == CHOOSE x \in S : TRUE IN <<x>> \o Enumerate(S \ {x})

----------------------------------------------------------------------------
(* Metadata::serialize (v5).                                               *)

\* A string behind a u16 length: the length is cast, that many bytes follow.
Str16(s) == LE(U16(Len(s)), 2) \o SubSeq(s, 1, U16(Len(s)))

\* A string behind a u32 length.
Str32(s) == LE(Len(s), 4) \o s

\* One attribute: key behind a u16 length, value behind a u32 length.
AttrBytes(key, val) == Str16(key) \o Str32(val)

\* One edge: target, rel_type behind a u8 length capped at 255, weight.
EdgeBytes(e) ==
    LET rt_len == Min(Len(e.rel_type), 255)
    IN LE(e.target_id, 8) \o LE(rt_len, 1) \o SubSeq(e.rel_type, 1, rt_len)
       \o LE(e.weight, 4)

\* Metadata::serialize.
serialize(m) ==
    LET keys == Enumerate(DOMAIN m.attributes)
    IN LE(m.timestamp, 8) \o LE(m.importance, 4) \o LE(m.type, 1)
       \o Str16(m.source) \o Str32(m.content) \o Str16(m.tags_json)
       \o LE(0, 2)
       \o LE(m.recall_count, 4) \o LE(m.last_recalled_at, 8)
       \o Str16(m.namespace_id) \o Str16(m.entity_id)
       \o LE(U16(Len(keys)), 2)
       \o Concat([i \in 1..Len(keys) |->
                     AttrBytes(keys[i], m.attributes[keys[i]])], Len(keys))
       \o LE(U16(Len(m.edges)), 2)
       \o Concat([i \in 1..Len(m.edges) |-> EdgeBytes(m.edges[i])],
                 Len(m.edges))

----------------------------------------------------------------------------
(* DB::save_vectors (v5).                                                  *)

Magic == 1178943828     \* 0x46454154, "FEAT"
Version == 5

\* One element of an index: its label and its dim floats.
ElemBytes(e, dim) ==
    LE(e.label, 8) \o Concat([i \in 1..dim |-> LE(e.vec[i], 4)], dim)

\* One modality section.
ModalityBytes(name, idx) ==
    Str16(name) \o LE(idx.dim, 4) \o LE(Len(idx.elems), 4)
    \o Concat([i \in 1..Len(idx.elems) |-> ElemBytes(idx.elems[i], idx.dim)],
              Len(idx.elems))

\* The file written from the store; ids and names are the orders in which
\* the two unordered_maps are iterated.
save_vectors(ms, mi, ids, names) ==
    LE(Magic, 4) \o LE(Version, 4)
    \o LE(Len(ids), 4)
    \o Concat([i \in 1..Len(ids) |-> LE(ids[i], 8) \o serialize(ms[ids[i]])],
              Len(ids))
    \o LE(Len(names), 4)
    \o Concat([i \in 1..Len(names) |-> ModalityBytes(names[i], mi[names[i]])],
              Len(names))

\* The orders in which a map's keys can be iterated.
Orders(f) ==
    {s \in [1..Cardinality(DOMAIN f) -> DOMAIN f] :
        \A i, j \in DOMAIN s : s[i] = s[j] => i = j}

----------------------------------------------------------------------------
(* std::istream::read.  The reader's state is one record: the buffer, the  *)
(* number of bytes consumed, the stream's good state, g (the value an      *)
(* uninitialised scalar holds when no byte is read into it), exact         *)
(* (whether every value read so far is represented faithfully), v (the     *)
(* value of the last read) and the locals and tables of the code reading.  *)

Reader(buf, g) ==
    [buf |-> buf, pos |-> 0, ok |-> TRUE, exact |-> TRUE, g |-> g, v |-> 0,
     m |-> DefaultMetadata, key |-> <<>>, e |-> Edge(0, StrRelatedTo, F32One),
     id |-> 0, name |-> <<>>, dim |-> 0, idx |-> NewIndex(0), vec |-> <<>>,
     magic |-> 0, version |-> 0, ms |-> EmptyMap, mi |-> EmptyMap]

\* n copies of x.
Repeat(x, n) == [i \in 1..n |-> x]

\* is.read(p, n): v is the bytes stored through p.  Once the stream has
\* failed nothing is read; a short read stores what is left and fails the
\* stream.
ReadBytes(R, n) ==
    IF ~R.ok THEN [R EXCEPT !.v = <<>>]
    ELSE IF Len(R.buf) - R.pos >= n
    THEN [R EXCEPT !.pos = @ + n, !.v = SubSeq(R.buf, R.pos + 1, R.pos + n)]
    ELSE [R EXCEPT !.pos = Len(R.buf), !.ok = FALSE,
                   !.v = SubSeq(R.buf, R.pos + 1, Len(R.buf))]

\* The bytes old with the bytes got written over their beginning.
Overlay(old, got) ==
    [i \in 1..Len(old) |-> IF i <= Len(got) THEN got[i] ELSE old[i]]

\* The integer a w-byte variable that held init holds after the read T.
Decoded(T, w, init) ==
    [T EXCEPT !.v = Dec(Overlay(LE(init, w), T.v)),
              !.exact = @ /\ Dec(Overlay(LE(init, w), T.v)) # Huge]

\* is.read((char*)&x, w) for a w-byte integer x that held init.
ReadInt(R, w, init) == Decoded(ReadBytes(R, w), w, init)

\* Longest string or vector the model materialises; a longer one clears
\* the exact flag.
MaxAlloc == 65535

\* The n-byte string the read T went into, fill where nothing was read.
Padded(T, n, fill) == [T EXCEPT !.v = @ \o Repeat(fill, n - Len(@))]

\* s.resize(n); is.read(&s[0], n), where n is the value just read.
ReadStr(R) ==
    IF R.v > MaxAlloc THEN [R EXCEPT !.exact = FALSE, !.v = <<>>]
    ELSE Padded(ReadBytes(R, R.v), R.v, 0)

\* std::string name(n, ' '); f.read(&name[0], n), n the value just read.
ReadName(R) ==
    IF R.v > MaxAlloc THEN [R EXCEPT !.exact = FALSE, !.v = <<>>]
    ELSE Padded(ReadBytes(R, R.v), R.v, 32)

----------------------------------------------------------------------------
(* Metadata::deserialize.  The reader takes the same path whatever         *)
(* version wrote the file.                                                 *)

\* m.<field> receives the value just read.
SetField(R, field) == [R EXCEPT !.m[field] = R.v]

IntField(R, w, init, field) == SetField(ReadInt(R, w, init), field)

\* A string behind a w-byte length that is not initialised.
StringField(R, w, field) == SetField(ReadStr(ReadInt(R, w, R.g)), field)

\* A string behind a w-byte length initialised to 0.
StringField0(R, w, field) == SetField(ReadStr(ReadInt(R, w, 0)), field)

PushLink(R) ==
    [R EXCEPT !.m.edges = Append(@, Edge(R.v, StrRelatedTo, F32One))]

\* The promoted legacy links: n reads of a u64 target that is not
\* initialised.  On a failed stream every read leaves the target as it was.
RECURSIVE ReadLinks(_, _)
ReadLinks(R, n) ==
    IF n = 0 THEN R
    ELSE IF ~R.ok
    THEN [R EXCEPT !.m.edges =
                      @ \o Repeat(Edge(R.g, StrRelatedTo, F32One), n)]
    ELSE ReadLinks(PushLink(ReadInt(R, 8, R.g)), n - 1)

SetKey(R) == [R EXCEPT !.key = R.v]

PutAttribute(R) == [R EXCEPT !.m.attributes = Put(@, R.key, R.v)]

\* The attribute loop: n times key, value, attributes[key] = val.  On a
\* failed stream every iteration stores "" -> "".
RECURSIVE ReadAttrs(_, _)
ReadAttrs(R, n) ==
    IF n = 0 THEN R
    ELSE IF ~R.ok THEN [R EXCEPT !.m.attributes = Put(@, <<>>, <<>>)]
    ELSE ReadAttrs(
             PutAttribute(ReadStr(ReadInt(
                 SetKey(ReadStr(ReadInt(R, 2, 0))), 4, 0))),
             n - 1)

\* Edge e; is.read(&e.target_id, 8).
SetTarget(R) == [R EXCEPT !.e = Edge(R.v, StrRelatedTo, F32One)]

\* e.rel_type.resize(rt_len); is.read(&e.rel_type[0], rt_len).
SetRelType(R) == [R EXCEPT !.e.rel_type = R.v]

\* is.read(&e.weight, 4); m.edges.push_back(e).
PushEdge(R) ==
    [R EXCEPT !.m.edges = Append(@, [R.e EXCEPT !.weight = R.v])]

\* The edge loop: n times target, rel_type, weight.
RECURSIVE ReadEdges(_, _)
ReadEdges(R, n) ==
    IF n = 0 THEN R
    ELSE IF ~R.ok
    THEN [R EXCEPT !.m.edges = @ \o Repeat(Edge(0, <<>>, F32One), n)]
    ELSE ReadEdges(
             PushEdge(ReadInt(
                 SetRelType(ReadStr(ReadInt(
                     SetTarget(ReadInt(R, 8, 0)), 1, 0))), 4, F32One)),
             n - 1)

\* From the edge_count just read: return when its read failed.
EdgeSection(R) == IF ~R.ok THEN R ELSE ReadEdges(R, R.v)

\* From the attr_count just read to the end of the record.
AttrSection(R) == EdgeSection(ReadInt(ReadAttrs(R, R.v), 2, 0))

\* From the ns_len just read: return when its read failed.
NamespaceSection(R) ==
    IF ~R.ok THEN R
    ELSE AttrSection(ReadInt(
             StringField0(SetField(ReadStr(R), "namespace_id"),
                          2, "entity_id"), 2, 0))

\* From the links_count just read: return when its read failed.
LinkSection(R) ==
    IF ~R.ok THEN R
    ELSE NamespaceSection(ReadInt(
             IntField(IntField(ReadLinks(R, R.v), 4, 0, "recall_count"),
                      8, 0, "last_recalled_at"), 2, 0))

\* Metadata m; the reads up to tags_json; links_count.
deserialize(R) ==
    LinkSection(ReadInt(
        StringField(StringField(StringField(
            IntField(IntField(IntField(
                [R EXCEPT !.m = DefaultMetadata],
                8, 0, "timestamp"), 4, F32One, "importance"), 1, R.g, "type"),
            2, "source"), 4, "content"), 2, "tags_json"),
        2, 0))

----------------------------------------------------------------------------
(* DB::load_vectors, DB::build_reverse_index, DB::open, DB::save.          *)
(* Every loop of the reader runs on after the stream has failed; from then *)
(* on each iteration repeats the one before it, so the model runs one such *)
(* iteration and stops.                                                    *)

SetId(R) == [R EXCEPT !.id = R.v]

\* metadata_store_[id] = m.
StoreRecord(R) == [R EXCEPT !.ms = Put(@, R.id, R.m)]

\* One iteration of the metadata loop.
MetaIteration(R) == StoreRecord(deserialize(SetId(ReadInt(R, 8, R.g))))

\* The metadata loop: n times id, record, metadata_store_[id] = record.
RECURSIVE MetaLoop(_, _)
MetaLoop(R, n) ==
    IF n = 0 THEN R
    ELSE IF ~R.ok THEN MetaIteration(R)
    ELSE MetaLoop(MetaIteration(R), n - 1)

\* The floats of the buffer vec after the bytes got were read into it.
ReadVec(vec, got) ==
    [i \in 1..Len(vec) |->
        Dec(SubSeq(Overlay(Concat([j \in 1..Len(vec) |-> LE(vec[j], 4)],
                                  Len(vec)), got),
                   4 * i - 3, 4 * i))]

\* f.read((char*)vec.data(), dim32 * sizeof(float)) after the read T.
SetVec(T) == [T EXCEPT !.vec = ReadVec(@, T.v)]

\* m_idx.index->addPoint(vec.data(), id).
AddElement(R) == [R EXCEPT !.idx = addPoint(@, R.vec, R.id)]

\* The read of dim32 floats.
ReadFloats(R) == ReadBytes(R, 4 * Len(R.vec))

\* One iteration of the element loop.
ElemIteration(R) == AddElement(SetVec(ReadFloats(SetId(ReadInt(R, 8, R.g)))))

\* The element loop of one modality: n times id, vector, addPoint.
RECURSIVE ElemLoop(_, _)
ElemLoop(R, n) ==
    IF n = 0 THEN R
    ELSE IF ~R.ok THEN ElemIteration(R)
    ELSE ElemLoop(ElemIteration(R), n - 1)

SetName(R) == [R EXCEPT !.name = R.v]

SetDim(R) == [R EXCEPT !.dim = R.v]

\* auto& m_idx = get_or_create_index(name, dim32); vec(dim32).
OpenIndex(R, name) ==
    [R EXCEPT !.name = name,
              !.mi = get_or_create_index(@, name, R.dim),
              !.idx = get_or_create_index(R.mi, name, R.dim)[name],
              !.vec = Zeros(IF R.dim > MaxAlloc THEN 0 ELSE R.dim),
              !.exact = @ /\ R.dim <= MaxAlloc
                          /\ get_or_create_index(R.mi, name, R.dim)[name].dim
                                 = R.dim]

\* The elements went into the index held by the registry.
CloseIndex(R) == [R EXCEPT !.mi[R.name] = R.idx]

\* The element loop of the modality just opened; not run when the model
\* cannot represent the vectors.
Elements(R, n) == IF ~R.exact THEN R ELSE CloseIndex(ElemLoop(R, n))

\* From the element_count just read.
ElementSection(R) == Elements(OpenIndex(R, R.name), R.v)

\* One iteration of the modality loop.
ModalIteration(R) ==
    ElementSection(ReadInt(SetDim(ReadInt(
        SetName(ReadName(ReadInt(R, 2, R.g))), 4, R.g)), 4, R.g))

\* The modality loop: n times name, dim, element_count, elements.
RECURSIVE ModalLoop(_, _)
ModalLoop(R, n) ==
    IF n = 0 THEN R
    ELSE IF ~R.ok THEN ModalIteration(R)
    ELSE ModalLoop(ModalIteration(R), n - 1)

\* The body of the v2 loop, from the id just read: record, vector,
\* addPoint, metadata_store_[id] = meta.
V2Iteration(R) ==
    StoreRecord(AddElement(SetVec(ReadFloats(deserialize(SetId(R))))))

\* while (f.read((char*)&id, 8)) { ... }, from the read of an id.
RECURSIVE V2Loop(_)
V2Loop(R) == IF ~R.ok THEN R ELSE V2Loop(ReadInt(V2Iteration(R), 8, R.g))

\* The v2 loop on the index just opened; not run when the model cannot
\* represent the vectors.
V2Elements(R) ==
    IF ~R.exact THEN R ELSE CloseIndex(V2Loop(ReadInt(R, 8, R.g)))

\* The v2 branch, from the dim32 just read: everything goes to "text".
V2Branch(R) == V2Elements(OpenIndex(SetDim(R), StrText))

\* From the modal_count just read.
ModalSection(R) == ModalLoop(R, R.v)

\* The branch of v3 and later, from the meta_count just read.
V3Branch(R) == ModalSection(ReadInt(MetaLoop(R, R.v), 4, R.g))

SetMagic(R) == [R EXCEPT !.magic = R.v]

SetVersion(R) == [R EXCEPT !.version = R.v]

\* uint32_t magic, version; the two reads.
Header(R) == SetVersion(ReadInt(SetMagic(ReadInt(R, 4, R.g)), 4, R.g))

\* After the header: return on a foreign magic, else branch on version.
Body(R) ==
    IF R.magic # Magic THEN R
    ELSE IF R.version = 2 THEN V2Branch(ReadInt(R, 4, R.g))
    ELSE IF R.version >= 3 THEN V3Branch(ReadInt(R, 4, R.g))
    ELSE R

\* DB::load_vectors into a default-constructed DB: the reader's state at
\* its end, ms and mi being the tables loaded.
load_vectors(f, g) ==
    IF ~f.exists THEN Reader(<<>>, g) ELSE Body(Header(Reader(f.bytes, g)))

\* DB::build_reverse_index over the records in iteration order ids.
RECURSIVE build_reverse_index(_, _, _)
build_reverse_index(ms, ids, ri) ==
    IF ids = <<>> THEN ri
    ELSE build_reverse_index(ms, Tail(ids),
                             PushImages(ri, Head(ids), ms[Head(ids)].edges, 1))

----------------------------------------------------------------------------
(* The engine driven through its API, starting from a fresh store.         *)

NoFile == [exists |-> FALSE, bytes |-> <<>>]

NoSnapshot == [taken |-> FALSE]

\* DB::open on a path with no file: an empty store with the default
\* "text" modality of the caller's default_dim.
FreshStore(default_dim) ==
    /\ metadata_store_ = EmptyMap
    /\ reverse_index_ = EmptyMap
    /\ modality_indices_ = get_or_create_index(EmptyMap, StrText, default_dim)

Init ==
    /\ \E default_dim \in 1..MaxDim : FreshStore(default_dim)
    /\ file = NoFile
    /\ atSave = NoSnapshot
    /\ last = [op |-> "open", err |-> "none"]
    /\ steps = 0

Thresholds == {F32Half, F32Threshold}
Ties == {"low", "high"}

\* One more call, within the model's budget of calls; the file is untouched.
InMemory ==
    /\ steps < MaxSteps
    /\ steps' = steps + 1
    /\ UNCHANGED <<file, atSave>>

AddCall ==
    /\ InMemory
    /\ \E id \in Ids, vec \in Vecs, meta \in MetaInputs, m \in Modalities :
           add(id, vec, meta, m)

TouchCall ==
    /\ InMemory
    /\ \E id \in Ids, now \in Nows : touch(id, now)

LinkCall ==
    /\ InMemory
    /\ \E f \in Ids, t \in Ids, r \in RelTypes, w \in Weights :
           link(f, t, r, w)

UpdateMetadataCall ==
    /\ InMemory
    /\ \E id \in Ids, meta \in MetaInputs : update_metadata(id, meta)

UpdateImportanceCall ==
    /\ InMemory
    /\ \E id \in Ids : update_importance(id, F32Half)

\* Filters a search may be given: a null pointer, and a filter on the
\* namespace.
Filters == {None, Some([EmptyFilter EXCEPT !.namespace_id = Some(StrNs)])}

\* Scoring configs a search may be given: a null pointer, and the default.
Scorings == {NoScoring, DefaultScoring}

\* search with neither a filter nor a scoring config.
SearchCall ==
    /\ InMemory
    /\ \E q \in Vecs, k \in 1..MaxK, m \in Modalities, now \in Nows,
          tie \in Ties : search(q, k, None, NoScoring, m, now, tie)

\* search with any of the filters and scoring configs.
SearchWithCall ==
    /\ InMemory
    /\ \E q \in Vecs, k \in 1..MaxK, filter \in Filters,
          scoring \in Scorings, m \in Modalities, now \in Nows,
          tie \in Ties : search(q, k, filter, scoring, m, now, tie)

ContextChainCall ==
    /\ InMemory
    /\ \E q \in Vecs, k \in 1..MaxK, hops \in 0..MaxHops, m \in Modalities,
          now \in Nows, tie \in Ties :
           context_chain(q, k, hops, m, now, tie)

AutoLinkCall ==
    /\ InMemory
    /\ \E m \in Modalities, th \in Thresholds, r \in RelTypes,
          c \in 1..MaxK, tie \in Ties : auto_link(m, th, r, c, tie)

Next ==
    \/ AddCall
    \/ TouchCall
    \/ LinkCall
    \/ UpdateMetadataCall
    \/ UpdateImportanceCall
    \/ SearchCall
    \/ ContextChainCall
    \/ AutoLinkCall

Spec == Init /\ [][Next]_vars

\* The engine driven through add, update_importance and search with its
\* options.
NextSearch ==
    \/ AddCall
    \/ UpdateImportanceCall
    \/ SearchWithCall

SpecSearch == Init /\ [][NextSearch]_vars

\* DB::save: the file is rewritten from the store, whose two maps are
\* iterated in the orders ids and names.
save(ids, names) ==
    /\ file' = [exists |-> TRUE,
                bytes |-> save_vectors(metadata_store_, modality_indices_,
                                       ids, names)]
    /\ atSave' = [taken |-> TRUE, ms |-> metadata_store_,
                  mi |-> modality_indices_, ri |-> reverse_index_,
                  layout |-> Version]
    /\ last' = [op |-> "save", err |-> "none"]
    /\ UNCHANGED store

\* The DB that open returns once load_vectors has run: "text" is created
\* with default_dim when no modality was loaded.
opened(ld, default_dim) ==
    /\ metadata_store_' = ld.ms
    /\ modality_indices_' =
           IF DOMAIN ld.mi = {}
           THEN get_or_create_index(ld.mi, StrText, default_dim)
           ELSE ld.mi
    /\ \E ids \in Orders(ld.ms) :
          reverse_index_' = build_reverse_index(ld.ms, ids, EmptyMap)
    /\ last' = [op |-> "open", err |-> "none", default_dim |-> default_dim,
                magic |-> ld.magic = Magic, version |-> ld.version,
                exact |-> ld.exact]
    /\ UNCHANGED <<file, atSave>>

\* DB::open.
open(default_dim, g) == opened(load_vectors(file, g), default_dim)

----------------------------------------------------------------------------
(* The v3 writer: the Metadata of that release has plain links and ends    *)
(* after last_recalled_at; the file layout around the records is the same. *)

LegacyVersion == 3

\* Metadata::Metadata() of the v3 release.
LegacyMetadata ==
    [timestamp |-> 0, importance |-> F32One, type |-> 0,
     source |-> <<>>, content |-> <<>>, tags_json |-> <<>>,
     links |-> <<>>, recall_count |-> 0, last_recalled_at |-> 0]

\* Metadata::serialize of the v3 release.
serialize_v3(m) ==
    LET links_count == U16(Len(m.links))
    IN LE(m.timestamp, 8) \o LE(m.importance, 4) \o LE(m.type, 1)
       \o Str16(m.source) \o Str32(m.content) \o Str16(m.tags_json)
       \o LE(links_count, 2)
       \o Concat([i \in 1..links_count |-> LE(m.links[i], 8)], links_count)
       \o LE(m.recall_count, 4) \o LE(m.last_recalled_at, 8)

\* DB::save_vectors of the v3 release.
save_vectors_v3(ms, mi, ids, names) ==
    LE(Magic, 4) \o LE(LegacyVersion, 4)
    \o LE(Len(ids), 4)
    \o Concat([i \in 1..Len(ids) |->
                  LE(ids[i], 8) \o serialize_v3(ms[ids[i]])], Len(ids))
    \o LE(Len(names), 4)
    \o Concat([i \in 1..Len(names) |-> ModalityBytes(names[i], mi[names[i]])],
              Len(names))

\* What a v3 record holds, as a record of this release: its links promoted
\* to edges, the later fields at their defaults.
Promoted(m) ==
    [DefaultMetadata EXCEPT
        !.timestamp = m.timestamp, !.importance = m.importance,
        !.type = m.type, !.source = m.source, !.content = m.content,
        !.tags_json = m.tags_json, !.recall_count = m.recall_count,
        !.last_recalled_at = m.last_recalled_at,
        !.edges = [i \in 1..Len(m.links) |->
                      Edge(m.links[i], StrRelatedTo, F32One)]]

----------------------------------------------------------------------------
(* Persistence: the engine mutated, saved and reopened.                    *)

MaxGarbage == 1

\* Values an uninitialised scalar of load_vectors or deserialize may hold.
Garbage == 0..MaxGarbage

\* One more call that goes to the file.
OnFile ==
    /\ steps < MaxSteps
    /\ steps' = steps + 1

SaveCall ==
    /\ OnFile
    /\ last.op # "DB"
    /\ \E ids \in Orders(metadata_store_), names \in Orders(modality_indices_) :
           save(ids, names)

OpenCall ==
    /\ OnFile
    /\ \E default_dim \in 1..MaxDim, g \in Garbage : open(default_dim, g)

NextPersist ==
    \/ AddCall
    \/ TouchCall
    \/ LinkCall
    \/ UpdateMetadataCall
    \/ UpdateImportanceCall
    \/ SaveCall
    \/ OpenCall

SpecPersist == Init /\ [][NextPersist]_vars

----------------------------------------------------------------------------
(* Files found on disk: written by the v3 release, or carrying a version   *)
(* number other than the writer's.                                         *)

MaxVersion == 6

\* Records of a v3 store: the default one, one with a link, one that was
\* recalled and has a source.
LegacyMetaInputs ==
    {LegacyMetadata,
     [LegacyMetadata EXCEPT !.links = <<MaxId>>],
     [LegacyMetadata EXCEPT !.recall_count = 1, !.last_recalled_at = 1,
                            !.source = StrNs]}

\* The "text" index holding the unit vector under each id of S.
UnitIndex(S) ==
    LET ids == Enumerate(S)
    IN [x \in {StrText} |->
           [dim |-> 1,
            elems |-> [i \in 1..Len(ids) |->
                          [label |-> ids[i], vec |-> <<F32One>>]]]]

\* A file together with the store its writer held, as this release
\* represents it.
OnDisk(bytes, ms, layout) ==
    [file |-> [exists |-> TRUE, bytes |-> bytes],
     atSave |-> [taken |-> TRUE, ms |-> ms, mi |-> UnitIndex(DOMAIN ms),
                 ri |-> EmptyMap, layout |-> layout]]

\* The files a v3 engine wrote from stores of one or two records.
LegacyFiles ==
    UNION {
      UNION {
        {OnDisk(save_vectors_v3(ms, UnitIndex(S), ids, <<StrText>>),
                [id \in S |-> Promoted(ms[id])], LegacyVersion)
           : ids \in Orders(ms)}
        : ms \in [S -> LegacyMetaInputs]}
      : S \in {1..n : n \in 1..MaxId}}

\* bytes with the version field of the header replaced by v.
WithVersion(bytes, v) ==
    SubSeq(bytes, 1, 4) \o LE(v, 4) \o SubSeq(bytes, 9, Len(bytes))

\* A file of this release's layout under every version number up to
\* MaxVersion.
VersionedFiles ==
    LET ms == [id \in {1} |-> DefaultMetadata]
        bytes == save_vectors(ms, UnitIndex({1}), <<1>>, <<StrText>>)
    IN {OnDisk(WithVersion(bytes, v), ms, Version) : v \in 0..MaxVersion}

\* No engine yet: a default-constructed DB, and a file on disk.
InitFiles ==
    /\ metadata_store_ = EmptyMap
    /\ modality_indices_ = EmptyMap
    /\ reverse_index_ = EmptyMap
    /\ \E d \in LegacyFiles \cup VersionedFiles :
          /\ file = d.file
          /\ atSave = d.atSave
    /\ last = [op |-> "DB", err |-> "none"]
    /\ steps = 0

NextFiles ==
    \/ OpenCall
    \/ SaveCall

SpecFiles == InitFiles /\ [][NextFiles]_vars

----------------------------------------------------------------------------
(* The graph built through add and link, and exported.                     *)

\* A call that reads the store: it takes none of the budget of calls, and
\* is not made twice in a row.
Reading(op) ==
    /\ last.op # op
    /\ UNCHANGED <<file, atSave, steps>>

ExportGraphCall ==
    /\ Reading("export_graph_json")
    /\ \E ns_filter \in {<<>>, StrNs}, eid_filter \in {<<>>, StrNs},
          ids \in Orders(metadata_store_) :
           export_graph_json(ns_filter, eid_filter, ids)

NextExport ==
    \/ AddCall
    \/ LinkCall
    \/ ExportGraphCall

SpecExport == Init /\ [][NextExport]_vars

----------------------------------------------------------------------------
(* SearchFilter::matches on its own: the filters and records it is given.  *)

MaxSetFields == 2

StrAn == <<97, 110>>                                   \* "an"
StrNa == <<110, 97>>                                   \* "na"

FilterFields ==
    {"types", "source", "source_prefix", "timestamp_after",
     "timestamp_before", "importance_gte", "tags_contains", "namespace_id",
     "entity_id", "attributes_match"}

\* A filter with every field set.
FullFilter ==
    [types |-> Some(<<1>>), source |-> Some(StrNs),
     source_prefix |-> Some(StrNs), timestamp_after |-> Some(1),
     timestamp_before |-> Some(1), importance_gte |-> Some(F32Half),
     tags_contains |-> Some(<<StrNs>>), namespace_id |-> Some(StrNs),
     entity_id |-> Some(StrNs),
     attributes_match |-> Some(Put(EmptyMap, StrNs, StrNs))]

\* The filters with at most MaxSetFields fields set, and the full one.
FilterInputs ==
    {[f \in FilterFields |-> IF f \in on THEN FullFilter[f] ELSE None] :
        on \in {on \in SUBSET FilterFields : Cardinality(on) <= MaxSetFields}}
    \cup {FullFilter}

\* Records that differ in every field a filter reads.
FilterMetas ==
    {[DefaultMetadata EXCEPT !.type = ty, !.source = so, !.timestamp = ts,
                             !.importance = im, !.tags_json = tg,
                             !.namespace_id = ns, !.entity_id = en,
                             !.attributes = at] :
        ty \in {0, 1}, so \in {<<>>, StrNs, StrAn, StrNa}, ts \in {0, 1, 2},
        im \in {F32Quarter, F32Half, F32One}, tg \in {<<>>, StrAn},
        ns \in {<<>>, StrNs}, en \in {<<>>, StrNs},
        at \in {EmptyMap, Put(EmptyMap, StrNs, StrNs),
                Put(EmptyMap, StrNs, StrAn)}}

InitFilter ==
    /\ FreshStore(1)
    /\ file = NoFile
    /\ atSave = NoSnapshot
    /\ \E f \in FilterInputs, meta \in FilterMetas :
          last = [op |-> "SearchFilter", filter |-> f, meta |-> meta]
    /\ steps = 0

MatchesCall ==
    /\ last.op = "SearchFilter"
    /\ last' = [op |-> "matches", filter |-> last.filter, meta |-> last.meta,
                ret |-> matches(last.filter, last.meta)]
    /\ steps' = steps + 1
    /\ UNCHANGED <<store, file, atSave>>

NextFilter == MatchesCall

SpecFilter == InitFilter /\ [][NextFilter]_vars

----------------------------------------------------------------------------
(* Paths a store is opened on: no file, a file of another format, a file   *)
(* this engine or its v3 release wrote.                                    *)

\* bytes with the magic field of the header replaced by m.
WithMagic(bytes, m) == LE(m, 4) \o SubSeq(bytes, 5, Len(bytes))

\* Magic numbers of files that are not FEAT files.
ForeignMagics == {0, Magic - 1, Version}

\* FEAT files under a foreign magic.
ForeignFiles ==
    {OnDisk(WithMagic(d.file.bytes, m), d.atSave.ms, d.atSave.layout)
        : d \in LegacyFiles \cup VersionedFiles, m \in ForeignMagics}

\* What a path may hold.
Paths ==
    {[file |-> NoFile, atSave |-> NoSnapshot]}
    \cup ForeignFiles \cup LegacyFiles \cup VersionedFiles

\* No engine yet: a default-constructed DB, and a path.
InitOpen ==
    /\ metadata_store_ = EmptyMap
    /\ modality_indices_ = EmptyMap
    /\ reverse_index_ = EmptyMap
    /\ \E d \in Paths :
          /\ file = d.file
          /\ atSave = d.atSave
    /\ last = [op |-> "DB", err |-> "none"]
    /\ steps = 0

SpecOpen == InitOpen /\ [][NextFiles]_vars

----------------------------------------------------------------------------
(* The engine saved and destroyed on a device that may refuse the file or  *)
(* run out of room.                                                        *)

\* A device: whether std::ofstream f(path_) opens, and how many bytes the
\* stream takes before a write fails.
Device(opens, room) == [opens |-> opens, room |-> room]

\* The devices a save of bytes may meet: a path that cannot be opened, a
\* device that fails at the first write of the header, at the first
\* metadata record, at the last write, and one with room for everything.
Devices(bytes) ==
    {Device(FALSE, 0), Device(TRUE, 0), Device(TRUE, Len(bytes) - 1),
     Device(TRUE, Len(bytes))}
    \cup {Device(TRUE, Len(save_vectors(EmptyMap, EmptyMap, <<>>, <<>>)) - 4)}

\* DB::save_vectors on the device: it throws when the stream does not
\* open; a write on a failed stream writes nothing, and save_vectors
\* returns.  failed tells what failed: "open", "write" or "none".
save_vectors_on(bytes, device, call) ==
    IF ~device.opens
    THEN /\ last' = call @@ [err |-> "Cannot save file", failed |-> "open"]
         /\ UNCHANGED <<file, atSave>>
    ELSE /\ file' = [exists |-> TRUE,
                     bytes |-> SubSeq(bytes, 1, Min(device.room, Len(bytes)))]
         /\ atSave' = [taken |-> TRUE, ms |-> metadata_store_,
                       mi |-> modality_indices_, ri |-> reverse_index_,
                       layout |-> Version]
         /\ last' = call @@ [err |-> "none",
                              failed |-> IF device.room < Len(bytes)
                                         THEN "write" ELSE "none"]

\* DB::save on a device.
save_on(bytes, device) ==
    /\ save_vectors_on(bytes, device, [op |-> "save"])
    /\ UNCHANGED store

\* DB::~DB on a device: save() runs; the exception save_vectors throws
\* leaves the destructor, which is noexcept, and std::terminate ends the
\* process.
destroy_on(bytes, device) ==
    /\ save_vectors_on(bytes, device,
                       [op |-> "~DB", aborted |-> ~device.opens])
    /\ UNCHANGED store

SaveOnCall ==
    /\ OnFile
    /\ \E ids \in Orders(metadata_store_), names \in Orders(modality_indices_) :
       \E bytes \in {save_vectors(metadata_store_, modality_indices_,
                                  ids, names)} :
       \E device \in Devices(bytes) : save_on(bytes, device)

\* The destructor is the last call on the engine.
DestroyCall ==
    /\ steps < MaxSteps
    /\ steps' = MaxSteps
    /\ \E ids \in Orders(metadata_store_), names \in Orders(modality_indices_) :
       \E bytes \in {save_vectors(metadata_store_, modality_indices_,
                                  ids, names)} :
       \E device \in Devices(bytes) : destroy_on(bytes, device)

NextDisk ==
    \/ AddCall
    \/ SaveOnCall
    \/ DestroyCall

SpecDisk == Init /\ [][NextDisk]_vars

----------------------------------------------------------------------------
(* Files of this release cut short inside a metadata record.               *)

\* The bytes before the first metadata record: magic, version, meta_count.
HeaderLen == Len(LE(Magic, 4) \o LE(Version, 4) \o LE(0, 4))

\* Where the i-th record of the file written from ms in the order ids
\* ends.
RecordEnd(ms, ids, i) ==
    HeaderLen
    + Len(Concat([j \in 1..i |-> LE(ids[j], 8) \o serialize(ms[ids[j]])], i))

\* The records before the n-th in the order ids.
Before(ms, ids, n) == [id \in {ids[j] : j \in 1..(n - 1)} |-> ms[id]]

\* The file written from ms in the order ids, cut after each byte of its
\* n-th record but the last, with the records that lie whole before the
\* cut.
CutInRecord(ms, ids, n) ==
    {OnDisk(SubSeq(save_vectors(ms, UnitIndex(DOMAIN ms), ids, <<StrText>>),
                   1, cut),
            Before(ms, ids, n), Version)
        : cut \in (RecordEnd(ms, ids, n - 1) + 1)..(RecordEnd(ms, ids, n) - 1)}

\* Records of the files cut short: the default one, and one with a
\* namespace and an edge.
TruncatedMetas ==
    {DefaultMetadata,
     [DefaultMetadata EXCEPT !.namespace_id = StrNs,
                             !.edges = <<Edge(MaxId, StrRelatedTo, F32Half)>>]}

\* The files of stores of one or two records, cut inside a record.
TruncatedFiles ==
    UNION {
      UNION {
        UNION {CutInRecord(ms, ids, n) : n \in 1..Len(ids)}
        : ms \in [S -> TruncatedMetas], ids \in Orders([id \in S |-> id])}
      : S \in {1..n : n \in 1..MaxId}}

\* No engine yet: a default-constructed DB, and a truncated file.
InitTruncated ==
    /\ metadata_store_ = EmptyMap
    /\ modality_indices_ = EmptyMap
    /\ reverse_index_ = EmptyMap
    /\ \E d \in TruncatedFiles :
          /\ file = d.file
          /\ atSave = d.atSave
    /\ last = [op |-> "DB", err |-> "none"]
    /\ steps = 0

NextTruncated == OpenCall

SpecTruncated == InitTruncated /\ [][NextTruncated]_vars

----------------------------------------------------------------------------
(* Records of different ages searched with the default scoring.            *)

\* One half-life of the default config, in seconds.
ThirtyDays == 30 * 86400

\* Creation times of the records, and the clock at a search.
Timestamps == {0, ThirtyDays}

AddAgedCall ==
    /\ InMemory
    /\ \E id \in Ids, vec \in Vecs, ts \in Timestamps, i \in {F32One, F32Half} :
          add(id, vec, [DefaultMetadata EXCEPT !.timestamp = ts,
                                               !.importance = i], StrText)

SearchAgedCall ==
    /\ InMemory
    /\ \E q \in Vecs, k \in 1..MaxK, tie \in Ties :
          search(q, k, None, DefaultScoring, StrText, ThirtyDays, tie)

NextDecay ==
    \/ AddAgedCall
    \/ SearchAgedCall

SpecDecay == Init /\ [][NextDecay]_vars

----------------------------------------------------------------------------
(* Scorer::calculate_score called on its own.                              *)

\* Squared L2 distances, importances and configs handed to the scorer.
Distances == 0..4

Importances == {F32Half, F32One}

Configs == {DefaultScoring, HeavyScoring, SimilarityOnly, RecencyOnly}

ScoreCall ==
    \E distance \in Distances, importance \in Importances,
       recall_count \in 0..MaxRecall, ts \in Timestamps, config \in Configs :
       \E meta \in {[DefaultMetadata EXCEPT !.timestamp = ts,
                                           !.importance = importance,
                                           !.recall_count = recall_count]} :
          /\ last' = [op |-> "calculate_score", err |-> "none",
                      distance |-> distance, meta |-> meta,
                      config |-> config, now |-> ThirtyDays,
                      score |-> calculate_score(distance, meta, config,
                                                ThirtyDays)]
          /\ UNCHANGED <<store, file, atSave, steps>>

NextScore == ScoreCall

SpecScore == Init /\ [][NextScore]_vars

----------------------------------------------------------------------------
(* Properties of the graph and of ingestion.                               *)

\* DB::get_edges and DB::get_incoming.
get_edges(id) ==
    IF Has(metadata_store_, id) THEN metadata_store_[id].edges ELSE <<>>

get_incoming(id) ==
    IF Has(reverse_index_, id) THEN reverse_index_[id] ELSE <<>>

\* Number of outgoing edges of s equal to (t, r, w).
OutCount(s, t, r, w) ==
    Count(get_edges(s), LAMBDA e : e = Edge(t, r, w))

\* Number of incoming entries under t equal to (s, r, w).
InCount(t, s, r, w) ==
    Count(get_incoming(t), LAMBDA ie : ie = IncomingEdge(s, r, w))

\* C1: the reverse index is exactly the transpose of the forward edges:
\* every outgoing edge (s, t, r, w) has exactly one incoming entry
\* (s, r, w) under t, and every incoming entry (s, r, w) under t is an
\* outgoing edge (t, r, w) of s.
ReverseIndexIsTranspose ==
    /\ \A s \in DOMAIN metadata_store_ :
         \A i \in 1..Len(metadata_store_[s].edges) :
            LET e == metadata_store_[s].edges[i]
            IN InCount(e.target_id, s, e.rel_type, e.weight) = 1
    /\ \A t \in DOMAIN reverse_index_ :
         \A i \in 1..Len(reverse_index_[t]) :
            LET ie == reverse_index_[t][i]
            IN OutCount(ie.source_id, t, ie.rel_type, ie.weight) >= 1

\* C2: no record's edge list holds two edges with the same
\* (target_id, rel_type).
EdgeUniqueness ==
    \A s \in DOMAIN metadata_store_ :
      \A i, j \in 1..Len(metadata_store_[s].edges) :
         LET es == metadata_store_[s].edges
         IN (es[i].target_id = es[j].target_id
             /\ es[i].rel_type = es[j].rel_type) => i = j

\* C6: a link on a triple (from, to, rel_type) that already exists leaves
\* the whole store unchanged, and then get_edges(from) holds exactly one
\* edge with that target and rel_type and get_incoming(to) exactly one
\* entry with that source and rel_type.
LinkIdempotent ==
    [][(/\ last'.op = "link"
        /\ Has(metadata_store_, last'.from_id)
        /\ HasEdge(metadata_store_[last'.from_id].edges,
                   last'.to_id, last'.rel_type))
       => (/\ UNCHANGED store
           /\ Count(metadata_store_'[last'.from_id].edges,
                    LAMBDA e : e.target_id = last'.to_id
                               /\ e.rel_type = last'.rel_type) = 1
           /\ Has(reverse_index_', last'.to_id)
           /\ Count(reverse_index_'[last'.to_id],
                    LAMBDA ie : ie.source_id = last'.from_id
                                /\ ie.rel_type = last'.rel_type) = 1)]_vars

\* C7: link from an id without a metadata record raises no error and
\* leaves the metadata table, every modality index and the reverse index
\* unchanged.
LinkUnknownSourceIsNoOp ==
    [][(last'.op = "link" /\ ~Has(metadata_store_, last'.from_id))
       => (last'.err = "none" /\ UNCHANGED store)]_vars

\* A link from an unknown source to a target that has incoming entries.
LinkUnknownSourceWitness ==
    /\ last.op = "link"
    /\ ~Has(metadata_store_, last.from_id)
    /\ get_incoming(last.to_id) # <<>>

\* The fields of a record other than its edges.
Scalars(meta) == [meta EXCEPT !.edges = <<>>]

\* C8: a successful add on an id with a record keeps the prior edges when
\* meta.edges is empty and takes every other field from meta; on an id
\* without a record it stores meta verbatim.
AddMergesMetadata ==
    [][(last'.op = "add" /\ last'.err = "none")
       => LET id == last'.id
              meta == last'.meta
          IN /\ Has(metadata_store_', id)
             /\ IF Has(metadata_store_, id)
                THEN /\ meta.edges = <<>>
                          => metadata_store_'[id].edges
                                 = metadata_store_[id].edges
                     /\ Scalars(metadata_store_'[id]) = Scalars(meta)
                ELSE metadata_store_'[id] = meta]_vars

\* An add with no edges and new scalar fields on a record that has edges.
AddMergeWitness ==
    /\ last.op = "add"
    /\ last.err = "none"
    /\ last.meta.edges = <<>>
    /\ last.meta.recall_count = 1
    /\ metadata_store_[last.id].edges # <<>>

\* C9: add with a vector whose length differs from the dimension of an
\* existing modality fails with DimensionMismatch and leaves the metadata
\* table, every modality index and the reverse index unchanged.
AddDimensionMismatch ==
    [][(/\ last'.op = "add"
        /\ Has(modality_indices_, last'.modality)
        /\ Len(last'.vec) # modality_indices_[last'.modality].dim)
       => (last'.err = "DimensionMismatch" /\ UNCHANGED store)]_vars

\* A rejected add on a store that already holds records and vectors.
AddDimensionMismatchWitness ==
    /\ last.op = "add"
    /\ last.err = "DimensionMismatch"
    /\ Has(metadata_store_, last.id)
    /\ modality_indices_[last.modality].elems # <<>>

\* Every stored vector has its modality's dimension, and a label occurs
\* once among the elements of an index.
ModalityWellFormed(mi) ==
    \A m \in DOMAIN mi :
       /\ \A i \in 1..Len(mi[m].elems) : Len(mi[m].elems[i].vec) = mi[m].dim
       /\ \A i, j \in 1..Len(mi[m].elems) :
             mi[m].elems[i].label = mi[m].elems[j].label => i = j

\* C10: a modality's dimension never changes once the modality exists,
\* every vector stored in it has that length, and each (id, modality)
\* pair holds at most one vector.
ModalityDimensionFixed ==
    /\ ModalityWellFormed(modality_indices_)
    /\ [][/\ ModalityWellFormed(modality_indices_')
          /\ \A m \in DOMAIN modality_indices_ :
                Has(modality_indices_', m)
                    => modality_indices_'[m].dim = modality_indices_[m].dim]_vars

\* A modality created by add holds a re-added id once, with the vector of
\* the second add.
ModalityDimensionWitness ==
    /\ last.op = "add"
    /\ last.err = "none"
    /\ last.modality = StrVisual
    /\ Len(modality_indices_[StrText].elems) = 2
    /\ modality_indices_[StrText].elems[1].vec = <<F32One>>
    /\ modality_indices_[StrVisual].dim = 2

----------------------------------------------------------------------------
(* Properties of persistence.                                              *)

\* The entries of two lists agree, whatever their order.
SameEntries(a, b) ==
    \A e \in Range(a) \cup Range(b) :
        Count(a, LAMBDA x : x = e) = Count(b, LAMBDA x : x = e)

\* Two reverse indexes hold the same incoming entries per target.
SameIncoming(ri1, ri2) ==
    \A t \in (DOMAIN ri1) \cup (DOMAIN ri2) :
        SameEntries(IF Has(ri1, t) THEN ri1[t] ELSE <<>>,
                    IF Has(ri2, t) THEN ri2[t] ELSE <<>>)

\* The tables of the engine are those of the snapshot s.
SameTables(s) ==
    /\ metadata_store_ = s.ms
    /\ DOMAIN modality_indices_ = DOMAIN s.mi
    /\ \A m \in DOMAIN s.mi :
          /\ modality_indices_[m].dim = s.mi[m].dim
          /\ VectorMap(modality_indices_[m]) = VectorMap(s.mi[m])

\* C3: after save() and a fresh open() of the saved file, the metadata
\* table, the modalities with their dimensions and the id-to-vector maps
\* equal the state at the save, and the reverse index holds the same
\* incoming entries per target as at the save.
SaveOpenRoundTrip ==
    (last.op = "open" /\ atSave.taken /\ atSave.layout = Version
        /\ last.version = Version)
    => (SameTables(atSave) /\ SameIncoming(reverse_index_, atSave.ri))

\* C4: a v3 file loads so that every record keeps its own fields, with
\* empty namespace_id, entity_id and attributes, and with no edges but
\* those promoted from its links.
LegacyFileLoads ==
    (last.op = "open" /\ last.exact /\ atSave.taken
        /\ atSave.layout = LegacyVersion)
    => \A id \in DOMAIN atSave.ms :
          /\ Has(metadata_store_, id)
          /\ metadata_store_[id] = atSave.ms[id]

\* C5: open() on a file whose magic matches and whose version is none of
\* 2, 3, 4, 5 fails with UnsupportedVersion.
UnsupportedVersionFails ==
    (last.op = "open" /\ last.magic /\ last.version \notin 2..Version)
    => last.err = "UnsupportedVersion"

----------------------------------------------------------------------------
(* Properties of search.                                                   *)

\* The ids of a result sequence.
ResultIds(results) == {results[j].id : j \in 1..Len(results)}

\* recall_count and last_recalled_at of id are the same before and after.
RecallUnchanged(id) ==
    /\ Has(metadata_store_', id)
    /\ metadata_store_'[id].recall_count = metadata_store_[id].recall_count
    /\ metadata_store_'[id].last_recalled_at
          = metadata_store_[id].last_recalled_at

\* C11: after a search call that returns a non-empty result, every
\* returned id has a recall_count one greater than before the call and a
\* last_recalled_at equal to the clock of the call, in the store the next
\* operation works on.
SearchBumpsReturned ==
    [][(last'.op = "search" /\ last'.results # <<>>)
         => \A id \in ResultIds(last'.results) :
               /\ Has(metadata_store_, id) /\ Has(metadata_store_', id)
               /\ metadata_store_'[id].recall_count
                     = metadata_store_[id].recall_count + 1
               /\ metadata_store_'[id].last_recalled_at = last'.now]_vars

\* A search has returned a record that had been recalled before, at a
\* clock reading other than the one the record held when it was added.
SearchBumpsReturnedWitness ==
    /\ last.op = "search"
    /\ \E id \in ResultIds(last.results) :
          /\ metadata_store_[id].recall_count = MaxRecall
          /\ metadata_store_[id].last_recalled_at = last.now

\* C12: a search call, with or without a scoring config, changes
\* recall_count and last_recalled_at of no id that is absent from the
\* result it returns.
SearchTouchesOnlyReturned ==
    [][last'.op = "search"
         => \A id \in DOMAIN metadata_store_ :
               id \notin ResultIds(last'.results) => RecallUnchanged(id)]_vars

----------------------------------------------------------------------------
(* Properties of context_chain.                                            *)

\* The seeds of a context_chain call: the ids its vector search returned.
Seeds(hits) == {hits[j].label : j \in 1..Len(hits)}

NodeIds(nodes) == {nodes[j].id : j \in 1..Len(nodes)}

\* C13: context_chain adds exactly one to recall_count of every seed id
\* and leaves recall_count and last_recalled_at of every other id, whether
\* reached through graph expansion or not in the result, unchanged.
ChainBumpsSeedsOnly ==
    [][last'.op = "context_chain"
         => \A id \in DOMAIN metadata_store_ :
               IF id \in Seeds(last'.hits)
               THEN /\ Has(metadata_store_', id)
                    /\ metadata_store_'[id].recall_count
                          = metadata_store_[id].recall_count + 1
               ELSE RecallUnchanged(id)]_vars

\* A context_chain has returned a seed with a bumped counter and a node
\* with a record that it reached through an edge only.
ChainBumpsSeedsOnlyWitness ==
    /\ last.op = "context_chain"
    /\ \E j \in 1..Len(last.nodes) :
          /\ last.nodes[j].hop = 0
          /\ metadata_store_[last.nodes[j].id].recall_count >= 1
    /\ \E j \in 1..Len(last.nodes) :
          /\ last.nodes[j].hop >= 1
          /\ Has(metadata_store_, last.nodes[j].id)

\* a and b are joined by an outgoing edge or a reverse-index entry, in
\* either direction.
Joined(a, b) ==
    \/ \E i \in 1..Len(get_edges(a)) : get_edges(a)[i].target_id = b
    \/ \E i \in 1..Len(get_edges(b)) : get_edges(b)[i].target_id = a
    \/ \E i \in 1..Len(get_incoming(a)) : get_incoming(a)[i].source_id = b
    \/ \E i \in 1..Len(get_incoming(b)) : get_incoming(b)[i].source_id = a

\* Every id the store mentions.
Mentioned ==
    DOMAIN metadata_store_ \cup DOMAIN reverse_index_
    \cup UNION {{metadata_store_[s].edges[i].target_id :
                    i \in 1..Len(metadata_store_[s].edges)} :
                 s \in DOMAIN metadata_store_}
    \cup UNION {{reverse_index_[t][i].source_id :
                    i \in 1..Len(reverse_index_[t])} :
                 t \in DOMAIN reverse_index_}

\* The ids at most n steps from S over the undirected graph.
RECURSIVE Within(_, _)
Within(S, n) ==
    IF n = 0 THEN S
    ELSE Within(S \cup {b \in Mentioned : \E a \in S : Joined(a, b)}, n - 1)

\* C14: the nodes context_chain returns are exactly the ids whose shortest
\* path to some seed, over the undirected graph of outgoing edges and
\* reverse-index entries, has length <= hops; the hop of a node is that
\* shortest length, and each id appears once.
ChainNodesAreNeighbourhood ==
    last.op = "context_chain"
      => /\ NodeIds(last.nodes) = Within(Seeds(last.hits), last.hops)
         /\ Len(last.nodes) = Cardinality(NodeIds(last.nodes))
         /\ \A j \in 1..Len(last.nodes) :
               /\ last.nodes[j].id \in Within(Seeds(last.hits), last.nodes[j].hop)
               /\ last.nodes[j].hop > 0
                    => last.nodes[j].id
                         \notin Within(Seeds(last.hits), last.nodes[j].hop - 1)

\* The (source, target, rel_type) of an edge record.
Triple(e) == <<e.source, e.target, e.rel_type>>

\* The stored edges, as triples.
StoredTriples ==
    UNION {{<<s, metadata_store_[s].edges[i].target_id,
              metadata_store_[s].edges[i].rel_type>> :
               i \in 1..Len(metadata_store_[s].edges)} :
           s \in DOMAIN metadata_store_}

\* The nodes of a result that the walk expanded.
Expanded(nodes, hops) ==
    {nodes[j].id : j \in {j \in 1..Len(nodes) : nodes[j].hop < hops}}

\* C15: the edges context_chain returns are exactly the stored edges with
\* an end at a node expanded at hop < hops, in their stored direction and
\* each triple once; both ends of every returned edge are returned nodes.
ChainEdgesAreIncident ==
    last.op = "context_chain"
      => /\ {Triple(last.edges[j]) : j \in 1..Len(last.edges)}
               = {t \in StoredTriples :
                     \/ t[1] \in Expanded(last.nodes, last.hops)
                     \/ t[2] \in Expanded(last.nodes, last.hops)}
         /\ \A i, j \in 1..Len(last.edges) :
               Triple(last.edges[i]) = Triple(last.edges[j]) => i = j
         /\ \A j \in 1..Len(last.edges) :
               /\ last.edges[j].source \in NodeIds(last.nodes)
               /\ last.edges[j].target \in NodeIds(last.nodes)

----------------------------------------------------------------------------
(* Properties of update_metadata and of the size of the store.             *)

\* The incoming list under t in reverse index ri, empty when t has none.
IncomingIn(ri, t) == IF Has(ri, t) THEN ri[t] ELSE <<>>

\* The entries of a list that come from source id, and those that do not.
FromSource(list, id) == SelectSeq(list, LAMBDA ie : ie.source_id = id)

FromOthers(list, id) == SelectSeq(list, LAMBDA ie : ie.source_id # id)

\* The reverse images under t of the edges of source id, in edge order.
RECURSIVE ImagesUnder(_, _, _)
ImagesUnder(edges, id, t) ==
    IF edges = <<>> THEN <<>>
    ELSE (IF Head(edges).target_id = t
          THEN <<IncomingEdge(id, Head(edges).rel_type, Head(edges).weight)>>
          ELSE <<>>)
         \o ImagesUnder(Tail(edges), id, t)

\* C16: after update_metadata(id, meta) the reverse-index entries whose
\* source is id are exactly the reverse images of meta.edges, one per
\* edge, and the entries from every other source are unchanged.
UpdateMetadataRebuildsReverse ==
    [][last'.op = "update_metadata"
         => \A t \in DOMAIN reverse_index_ \cup DOMAIN reverse_index_'
                     \cup Ids :
               /\ FromSource(IncomingIn(reverse_index_', t), last'.id)
                     = ImagesUnder(last'.meta.edges, last'.id, t)
               /\ FromOthers(IncomingIn(reverse_index_', t), last'.id)
                     = FromOthers(IncomingIn(reverse_index_, t), last'.id)]_vars

\* update_metadata has given edges to an id while the reverse index also
\* holds an entry from another source.
UpdateMetadataRebuildsWitness ==
    /\ last.op = "update_metadata"
    /\ last.meta.edges # <<>>
    /\ \E t \in DOMAIN reverse_index_ :
          /\ FromOthers(reverse_index_[t], last.id) # <<>>
          /\ FromSource(reverse_index_[t], last.id) # <<>>

\* DB::size.
size == Cardinality(DOMAIN metadata_store_)

\* The calls that are not add.
NonCreating ==
    {"link", "touch", "update_metadata", "update_importance", "search",
     "context_chain", "auto_link"}

\* C17: link, touch, update_metadata, update_importance, search,
\* context_chain and auto_link never add a metadata record: the set of
\* ids with a record, and so size(), is the same after the call.
OnlyAddCreatesRecords ==
    [][last'.op \in NonCreating
         => DOMAIN metadata_store_' = DOMAIN metadata_store_]_vars

\* The ids that hold a vector in modality m of registry mi.
Labels(mi, m) ==
    IF Has(mi, m) THEN {mi[m].elems[i].label : i \in 1..Len(mi[m].elems)}
    ELSE {}

\* C18: no step removes an id from the metadata table, a modality from
\* the registry, or an id from the vectors of a modality; size() never
\* decreases.
AppendOnly ==
    [][/\ DOMAIN metadata_store_ \subseteq DOMAIN metadata_store_'
       /\ DOMAIN modality_indices_ \subseteq DOMAIN modality_indices_'
       /\ \A m \in DOMAIN modality_indices_ :
             Labels(modality_indices_, m) \subseteq Labels(modality_indices_', m)
       /\ size' >= size]_vars

\* A store holding a record and a vector has been through a call that
\* replaced a whole record.
AppendOnlyWitness ==
    /\ last.op = "update_metadata"
    /\ size >= 1
    /\ \E m \in DOMAIN modality_indices_ :
          last.id \in Labels(modality_indices_, m)

----------------------------------------------------------------------------
(* Properties of the filter.                                               *)

\* p is a prefix of s; t occurs in s.
IsPrefix(p, s) == Len(p) <= Len(s) /\ SubSeq(s, 1, Len(p)) = p

IsSubstring(t, s) ==
    \E i \in 1..(Len(s) + 1) :
       i + Len(t) - 1 <= Len(s) /\ SubSeq(s, i, i + Len(t) - 1) = t

\* The constraint a set field puts on a record.
Constraint(field, v, meta) ==
    CASE field = "types" -> meta.type \in Range(v)
      [] field = "source" -> meta.source = v
      [] field = "source_prefix" -> IsPrefix(v, meta.source)
      [] field = "timestamp_after" -> meta.timestamp >= v
      [] field = "timestamp_before" -> meta.timestamp <= v
      [] field = "importance_gte" -> meta.importance >= v
      [] field = "tags_contains"
           -> \A i \in 1..Len(v) : IsSubstring(v[i], meta.tags_json)
      [] field = "namespace_id" -> meta.namespace_id = v
      [] field = "entity_id" -> meta.entity_id = v
      [] field = "attributes_match"
           -> \A key \in DOMAIN v :
                 key \in DOMAIN meta.attributes /\ meta.attributes[key] = v[key]

\* C19: matches(meta) is true if and only if every field that is set in
\* the filter has its own constraint satisfied by meta; a filter with no
\* field set accepts every record.
MatchesIsConjunction ==
    last.op = "matches"
      => /\ last.ret
              <=> \A field \in FilterFields :
                     last.filter[field].some
                       => Constraint(field, last.filter[field].val, last.meta)
         /\ last.filter = EmptyFilter => last.ret

\* matches has accepted a record under a filter with every field set.
MatchesIsConjunctionWitness ==
    /\ last.op = "matches"
    /\ last.filter = FullFilter
    /\ last.ret

----------------------------------------------------------------------------
(* Properties of the result of search.                                     *)

\* The score search gives a hit of the call recorded in last.
ScoreOfHit(hit) ==
    IF last.scoring.set
    THEN calculate_score(hit.dist, metadata_store_[hit.label], last.scoring,
                         last.now)
    ELSE Similarity(hit.dist)

\* C21: search returns at most k results, in non-increasing order of
\* score, each carrying the id of a hit, the score of that hit and a copy
\* of the id's metadata record.
SearchResultShape ==
    last.op = "search"
      => /\ Len(last.results) <= last.k
         /\ \A j \in 1..(Len(last.results) - 1) :
               last.results[j].score >= last.results[j + 1].score
         /\ \A j \in 1..Len(last.results) :
               /\ \E h \in 1..Len(last.hits) :
                     /\ last.hits[h].label = last.results[j].id
                     /\ last.results[j].score = ScoreOfHit(last.hits[h])
               /\ last.results[j].metadata
                     = metadata_store_[last.results[j].id]

\* A search has returned two results with scores that differ, the sort
\* having moved the hit popped last to the front.
SearchResultShapeWitness ==
    /\ last.op = "search"
    /\ Len(last.results) = 2
    /\ last.results[1].score > last.results[2].score
    /\ last.results[1].id = last.hits[Len(last.hits)].label

\* C22: two results of a search with equal score appear in ascending
\* order of id.
SearchTiesAscendingId ==
    last.op = "search"
      => \A i, j \in 1..Len(last.results) :
            (i < j /\ last.results[i].score = last.results[j].score)
               => last.results[i].id < last.results[j].id

----------------------------------------------------------------------------
(* Properties of queries on a modality that does not exist.                *)

\* What the call recorded in r returned is empty (0 for auto_link).
EmptyReturn(r) ==
    CASE r.op = "search" -> r.results = <<>>
      [] r.op = "context_chain" -> r.nodes = <<>> /\ r.edges = <<>>
      [] r.op = "auto_link" -> r.ret = 0

\* C23: search, context_chain and auto_link on a modality that does not
\* exist return an empty result (0 for auto_link) without error and leave
\* the whole store unchanged: no modality is created and no recall
\* counter changes.
UnknownModalityIsNoOp ==
    [][(/\ last'.op \in {"search", "context_chain", "auto_link"}
        /\ ~Has(modality_indices_, last'.modality))
         => /\ EmptyReturn(last')
            /\ last'.err = "none"
            /\ UNCHANGED store]_vars

\* A query has been made on a modality the store does not have, while
\* the store holds a record.
UnknownModalityWitness ==
    /\ last.op \in {"search", "context_chain", "auto_link"}
    /\ ~Has(modality_indices_, last.modality)
    /\ metadata_store_ # EmptyMap

----------------------------------------------------------------------------
(* Properties of auto_link.                                                *)

\* The edges a call appended to the list of id.
NewEdges(id) ==
    SubSeq(metadata_store_'[id].edges, Len(get_edges(id)) + 1,
           Len(metadata_store_'[id].edges))

\* The neighbours auto_link links element e of index idx to: the popped
\* hits other than e itself that reach the threshold and that e has no
\* edge of the rel_type to, each with its similarity.
Linkable(idx, e, r, tie) ==
    {h \in Range(searchKnn(idx, e.vec, r.candidates + 1, tie)) :
        /\ h.label # e.label
        /\ Similarity(h.dist) >= r.threshold
        /\ ~HasEdge(get_edges(e.label), h.label, r.rel_type)}

\* The entries a call appended to the incoming list under t.
NewIncoming(t) ==
    SubSeq(IncomingIn(reverse_index_', t),
           Len(IncomingIn(reverse_index_, t)) + 1,
           Len(IncomingIn(reverse_index_', t)))

\* C24: for each element of the modality, auto_link appends exactly the
\* edges (to_id, rel_type, similarity) to its nearest neighbours other
\* than itself whose similarity reaches the threshold and to which it has
\* no edge of that rel_type; it mirrors each new edge into the reverse
\* index, changes no recall counter and nothing else, and returns the
\* number of edges it added.
AutoLinkAddsEdges ==
    [][(last'.op = "auto_link" /\ Has(modality_indices_, last'.modality))
         => \E tie \in Ties :
            LET idx == modality_indices_[last'.modality]
                new(e) == {Edge(h.label, last'.rel_type, Similarity(h.dist)) :
                              h \in Linkable(idx, e, last', tie)}
            IN /\ DOMAIN metadata_store_' = DOMAIN metadata_store_
               /\ \A i \in 1..Len(idx.elems) :
                     /\ Range(NewEdges(idx.elems[i].label)) = new(idx.elems[i])
                     /\ Len(NewEdges(idx.elems[i].label))
                           = Cardinality(new(idx.elems[i]))
               /\ \A id \in DOMAIN metadata_store_ :
                     /\ metadata_store_'[id]
                           = [metadata_store_[id] EXCEPT
                                 !.edges = @ \o NewEdges(id)]
                     /\ id \notin Labels(modality_indices_, last'.modality)
                           => NewEdges(id) = <<>>
               /\ DOMAIN reverse_index_ \subseteq DOMAIN reverse_index_'
               /\ \A t \in DOMAIN reverse_index_'
                           \cup Labels(modality_indices_, last'.modality) :
                     /\ SubSeq(IncomingIn(reverse_index_', t), 1,
                               Len(IncomingIn(reverse_index_, t)))
                           = IncomingIn(reverse_index_, t)
                     /\ Range(NewIncoming(t))
                           = UNION {{IncomingEdge(s, e.rel_type, e.weight) :
                                       e \in {e \in Range(NewEdges(s)) :
                                                e.target_id = t}} :
                                    s \in DOMAIN metadata_store_}
                     /\ Len(NewIncoming(t)) = Cardinality(Range(NewIncoming(t)))
                     /\ (t \in DOMAIN reverse_index_' \ DOMAIN reverse_index_)
                           => NewIncoming(t) # <<>>
               /\ UNCHANGED modality_indices_
               /\ last'.ret
                     = Cardinality(UNION {{<<id, e>> : e \in Range(NewEdges(id))} :
                                            id \in DOMAIN metadata_store_})]_vars

\* auto_link has linked one element to its neighbour and left alone the
\* neighbour, which already had an edge of the rel_type back to it.
AutoLinkWitness ==
    /\ last.op = "auto_link"
    /\ last.ret = 1
    /\ Has(modality_indices_, last.modality)
    /\ Len(modality_indices_[last.modality].elems) = 2
    /\ \A i \in 1..2 :
          \E j \in 1..2 :
             /\ i # j
             /\ HasEdge(get_edges(modality_indices_[last.modality].elems[i].label),
                        modality_indices_[last.modality].elems[j].label,
                        last.rel_type)

----------------------------------------------------------------------------
(* Properties of export_graph_json.                                        *)

\* The records that match both filters, an empty filter being not given.
Included(ns_filter, eid_filter) ==
    {id \in DOMAIN metadata_store_ :
        /\ ns_filter # <<>> => metadata_store_[id].namespace_id = ns_filter
        /\ eid_filter # <<>> => metadata_store_[id].entity_id = eid_filter}

\* The stored edges, each with its place in its list, whose source and
\* target are both in S.
EdgesWithin(S) ==
    UNION {{<<s, i>> : i \in {i \in 1..Len(metadata_store_[s].edges) :
                               metadata_store_[s].edges[i].target_id \in S}} :
           s \in S}

\* C25: export_graph_json includes a node if and only if its metadata
\* matches both given filters, and emits an edge if and only if both its
\* source and its target are included nodes.
ExportGraphIsClosed ==
    last.op = "export_graph_json"
      => LET S == Included(last.ns_filter, last.eid_filter)
         IN /\ {last.nodes[j].id : j \in 1..Len(last.nodes)} = S
            /\ Len(last.nodes) = Cardinality(S)
            /\ Range(last.edges)
                  = {GraphEdge(p[1], metadata_store_[p[1]].edges[p[2]]) :
                       p \in EdgesWithin(S)}
            /\ Len(last.edges) = Cardinality(EdgesWithin(S))

\* An export has included a node and left out one of its edges, whose
\* target has a record that fails the filter.
ExportGraphWitness ==
    /\ last.op = "export_graph_json"
    /\ \E j \in 1..Len(last.nodes) :
       \E i \in 1..Len(metadata_store_[last.nodes[j].id].edges) :
          LET t == metadata_store_[last.nodes[j].id].edges[i].target_id
          IN /\ Has(metadata_store_, t)
             /\ t \notin {last.nodes[n].id : n \in 1..Len(last.nodes)}

----------------------------------------------------------------------------
(* Properties of open and save.                                            *)

\* The path holds no file, or a file whose first four bytes are not FEAT.
Foreign(f) ==
    \/ ~f.exists
    \/ Len(f.bytes) >= 4 /\ Dec(SubSeq(f.bytes, 1, 4)) # Magic

\* The store open returns where there is nothing to load.
Fresh(default_dim) ==
    /\ metadata_store_ = EmptyMap
    /\ reverse_index_ = EmptyMap
    /\ DOMAIN modality_indices_ = {StrText}
    /\ modality_indices_[StrText] = [dim |-> default_dim, elems |-> <<>>]

\* The modalities of the engine are those of the snapshot s, each with
\* its dimension.
PersistedModalities(s) ==
    /\ DOMAIN modality_indices_ = DOMAIN s.mi
    /\ \A m \in DOMAIN s.mi : modality_indices_[m].dim = s.mi[m].dim

\* open() where there is nothing to load returns the fresh store.
OpenOfForeignIsFresh ==
    (last.op = "open" /\ Foreign(file)) => Fresh(last.default_dim)

\* C26: open() on a path with no file, or on a file whose magic is not
\* FEAT, returns a store with no metadata record, an empty reverse index
\* and the one modality "text" of the caller's default dimension; open()
\* on a FEAT file that holds modalities returns a store with the file's
\* modalities and adds no default one.
OpenFreshOrPersisted ==
    /\ OpenOfForeignIsFresh
    /\ (last.op = "open" /\ ~Foreign(file) /\ atSave.taken
           /\ DOMAIN atSave.mi # {})
       => PersistedModalities(atSave)

\* open() of a file of this release under its own version number keeps the
\* file's modalities.
OpenOfOwnFileKeepsModalities ==
    (last.op = "open" /\ ~Foreign(file) /\ atSave.taken
        /\ atSave.layout = Version /\ last.version = Version)
    => PersistedModalities(atSave)

\* C27: save() reports a failure whenever the open of the file or a later
\* write of the header, of a metadata record or of a vector failed.
SaveReportsWriteErrors ==
    (last.op = "save" /\ "failed" \in DOMAIN last /\ last.failed # "none")
    => last.err # "none"

\* save() reports a failure when the file cannot be opened.
SaveReportsOpenError ==
    (last.op = "save" /\ "failed" \in DOMAIN last /\ last.failed = "open")
    => last.err = "Cannot save file"

\* The file holds the store as save_vectors writes it.
FileHoldsStore ==
    /\ file.exists
    /\ \E ids \in Orders(metadata_store_), names \in Orders(modality_indices_) :
          file.bytes = save_vectors(metadata_store_, modality_indices_,
                                    ids, names)

\* Destroying the engine on a device that takes the whole file leaves the
\* store saved.
DestructorSaves ==
    (last.op = "~DB" /\ last.failed = "none") => FileHoldsStore

\* C28: destroying the engine runs save(); when the file cannot be opened
\* or written at that time, the error is surfaced and the destructor
\* returns without ending the process.
DestructorSavesRobustly ==
    /\ DestructorSaves
    /\ (last.op = "~DB" /\ last.failed # "none")
       => (last.err # "none" /\ ~last.aborted)

\* C29: open() of a file with a valid header that ends inside its n-th
\* metadata record returns a store that holds exactly the n-1 records
\* before it, each with the fields the file holds.
TruncatedFileKeepsWholeRecords ==
    (last.op = "open" /\ atSave.taken) => metadata_store_ = atSave.ms

\* The engine holds every record that carries edges in the snapshot s,
\* with the edges it has there.
LinkedRecordsKept(s) ==
    \A id \in DOMAIN s.ms :
        s.ms[id].edges # <<>>
        => /\ Has(metadata_store_, id)
           /\ metadata_store_[id].edges = s.ms[id].edges

\* The edges of a store saved by this release come back on a reopen,
\* neither lost nor doubled.
SavedEdgesReloaded ==
    (last.op = "open" /\ atSave.taken /\ atSave.layout = Version
        /\ last.version = Version)
    => LinkedRecordsKept(atSave)

\* A record of a v3 file that is loaded under its id has its links as
\* edges and no other edge.
LoadedLegacyLinksPromoted ==
    (last.op = "open" /\ atSave.taken /\ atSave.layout = LegacyVersion)
    => \A id \in DOMAIN atSave.ms :
          (atSave.ms[id].edges # <<>> /\ Has(metadata_store_, id))
          => metadata_store_[id].edges = atSave.ms[id].edges

\* C30: a record of a v3 file with n > 0 legacy links is loaded with n
\* edges, one per link in file order, each "related_to" of weight 1.0; once
\* the store is saved, a reopen of the saved file gives the same edges.
LegacyLinksSurvive ==
    /\ (last.op = "open" /\ atSave.taken /\ atSave.layout = LegacyVersion)
       => LinkedRecordsKept(atSave)
    /\ SavedEdgesReloaded

----------------------------------------------------------------------------
(* Properties of scoring.                                                  *)

\* The distance of the hit of label id.
DistanceOf(hits, id) ==
    hits[CHOOSE j \in 1..Len(hits) : hits[j].label = id].dist

\* The record m as it was before the one recall of the search.
BeforeRecall(m) == [m EXCEPT !.recall_count = @ - 1]

\* C31: in a search with scoring, a record that had recall_count 0 before
\* the call and is one half-life old is scored with recency 0.5, that is
\* with the score of the record as it was before the call; at distance 0
\* and importance 1.0 it scores 0.85 where a fresh record scores 1.0.
ScoreIgnoresOwnRecall ==
    (last.op = "search" /\ last.scoring.set /\ last.err = "none")
    => \A j \in 1..Len(last.results) :
          LET id == last.results[j].id
              m == metadata_store_[id]
          IN (Has(metadata_store_, id) /\ m.recall_count = 1
                 /\ last.now - m.timestamp = ThirtyDays)
             => /\ Recency(ThirtyDays, BeforeRecall(m).recall_count) = F32Half
                /\ last.results[j].score =
                      calculate_score(DistanceOf(last.hits, id),
                                      BeforeRecall(m), last.scoring, last.now)

\* The score of the last call is not exceeded at a larger distance and not
\* undercut at a larger importance.
Monotone ==
    /\ \A d \in Distances :
          d >= last.distance
          => calculate_score(d, last.meta, last.config, last.now)
                <= last.score
    /\ \A i \in Importances :
          i >= last.meta.importance
          => calculate_score(last.distance,
                             [last.meta EXCEPT !.importance = i],
                             last.config, last.now) >= last.score

\* C32, amended: for fixed metadata and clock and a ScoringConfig whose
\* time_weight lies in [0, 1], the score of a record of importance >= 0 is
\* monotone non-increasing in distance and monotone non-decreasing in
\* importance.
ScoreMonotoneWithinUnitWeight ==
    (last.op = "calculate_score"
        /\ last.config.time_weight >= F32Zero
        /\ last.config.time_weight <= F32One
        /\ last.meta.importance >= F32Zero)
    => Monotone

\* A call under the default config whose score falls at the next distance
\* and at the smaller importance.
ScoreMonotoneWitness ==
    /\ last.op = "calculate_score"
    /\ last.config = DefaultScoring
    /\ last.meta.importance = F32One
    /\ last.distance = 0
    /\ calculate_score(1, last.meta, last.config, last.now) < last.score
    /\ calculate_score(0, [last.meta EXCEPT !.importance = F32Half],
                       last.config, last.now) < last.score

\* C32: for fixed metadata and clock and any ScoringConfig, the score is
\* monotone non-increasing in distance and monotone non-decreasing in
\* importance.
ScoreMonotone ==
    last.op = "calculate_score" => Monotone

----------------------------------------------------------------------------
(* Two threads inside DB::link on the same triple, with no lock: each      *)
(* statement of link is a step, and a push_back made while both threads    *)
(* have passed the duplicate check races with the other's and may be lost. *)

Threads == {1, 2}

\* The other thread.
Other(t) == 3 - t

\* No thread is inside link.
Quiet ==
    last.op = "link_pair" => \A t \in Threads : last.pc[t] = "done"

\* Thread t is at the statement pc of link.
AtStatement(t, pc) ==
    /\ last.op = "link_pair"
    /\ last.pc[t] = pc
    /\ UNCHANGED <<modality_indices_, file, atSave, steps>>

\* Both threads call link(from_id, to_id, rel_type, weight).
StartLinksCall ==
    /\ Quiet
    /\ InMemory
    /\ \E from_id \in Ids, to_id \in Ids :
          last' = [op |-> "link_pair", err |-> "none",
                   from_id |-> from_id, to_id |-> to_id,
                   rel_type |-> StrRelatedTo, weight |-> F32One,
                   pc |-> [t \in Threads |-> "find"], overlap |-> FALSE,
                   edges0 |-> get_edges(from_id),
                   incoming0 |-> get_incoming(to_id)]
    /\ UNCHANGED store

\* find(from_id) and the loop over the edges: return, or go on to append.
\* overlap records that t passed the check after the other thread had
\* passed it and before that thread appended.
LinkCheck(t) ==
    /\ AtStatement(t, "find")
    /\ IF \/ ~Has(metadata_store_, last.from_id)
          \/ HasEdge(get_edges(last.from_id), last.to_id, last.rel_type)
       THEN last' = [last EXCEPT !.pc[t] = "done"]
       ELSE last' = [last EXCEPT !.pc[t] = "push_edge",
                                 !.overlap = @ \/ last.pc[Other(t)] = "push_edge"]
    /\ UNCHANGED store

\* it->second.edges.push_back({to_id, rel_type, weight}).
LinkPushEdge(t) ==
    /\ AtStatement(t, "push_edge")
    /\ \/ metadata_store_' =
             [metadata_store_ EXCEPT ![last.from_id].edges =
                 Append(@, Edge(last.to_id, last.rel_type, last.weight))]
       \/ last.overlap /\ UNCHANGED metadata_store_
    /\ last' = [last EXCEPT !.pc[t] = "push_incoming"]
    /\ UNCHANGED <<reverse_index_>>

\* reverse_index_[to_id].push_back({from_id, rel_type, weight}).
LinkPushIncoming(t) ==
    /\ AtStatement(t, "push_incoming")
    /\ \/ reverse_index_' =
             PushIncoming(reverse_index_, last.to_id,
                          IncomingEdge(last.from_id, last.rel_type,
                                       last.weight))
       \/ last.overlap /\ UNCHANGED reverse_index_
    /\ last' = [last EXCEPT !.pc[t] = "done"]
    /\ UNCHANGED <<metadata_store_>>

AddQuietCall == Quiet /\ AddCall

NextRace ==
    \/ AddQuietCall
    \/ StartLinksCall
    \/ \E t \in Threads : LinkCheck(t)
    \/ \E t \in Threads : LinkPushEdge(t)
    \/ \E t \in Threads : LinkPushIncoming(t)

SpecRace == Init /\ [][NextRace]_vars

----------------------------------------------------------------------------
(* Properties of unsynchronised calls.                                     *)

\* Number of edges to (t, r) in a list of outgoing edges.
EdgesTo(edges, t, r) ==
    Count(edges, LAMBDA e : e.target_id = t /\ e.rel_type = r)

\* Number of incoming entries from (s, r) in a list of incoming edges.
EntriesFrom(entries, s, r) ==
    Count(entries, LAMBDA ie : ie.source_id = s /\ ie.rel_type = r)

\* Edges and incoming entries of the triple that the two calls added.
AddedEdges ==
    EdgesTo(get_edges(last.from_id), last.to_id, last.rel_type)
    - EdgesTo(last.edges0, last.to_id, last.rel_type)

AddedIncoming ==
    EntriesFrom(get_incoming(last.to_id), last.from_id, last.rel_type)
    - EntriesFrom(last.incoming0, last.from_id, last.rel_type)

\* C33: link is not atomic.  Two calls on the same triple add the triple
\* twice only when the second passed the duplicate check before the first
\* appended; calls that do not interleave there add it at most once, and
\* not at all when the edge list already holds it.
LinkDoublesOnlyInterleaved ==
    last.op = "link_pair"
    => /\ (AddedEdges >= 2 \/ AddedIncoming >= 2) => last.overlap
       /\ HasEdge(last.edges0, last.to_id, last.rel_type) => AddedEdges = 0

\* Both calls have returned and the triple, absent before, is twice in
\* from's edge list and twice in to's incoming list.
LinkDoubledWitness ==
    /\ last.op = "link_pair"
    /\ \A t \in Threads : last.pc[t] = "done"
    /\ ~HasEdge(last.edges0, last.to_id, last.rel_type)
    /\ OutCount(last.from_id, last.to_id, last.rel_type, last.weight) = 2
    /\ InCount(last.to_id, last.from_id, last.rel_type, last.weight) = 2

----------------------------------------------------------------------------
(* Properties of enumeration.                                              *)

\* DB::get_all_ids: the ids of the metadata table whose label is found in
\* the index of the modality, as a set (the table is walked in the order
\* of an unordered_map); empty for an unknown modality.
get_all_ids(modality) ==
    IF ~Has(modality_indices_, modality) THEN {}
    ELSE {id \in DOMAIN metadata_store_ :
             id \in DOMAIN VectorMap(modality_indices_[modality])}

\* C34: from a fresh store, every id that holds a vector in a modality has
\* a metadata record, and get_all_ids(m) is exactly the set of ids that
\* hold a vector in m.
VectorsHaveRecords ==
    \A m \in Modalities :
       /\ Labels(modality_indices_, m) \subseteq DOMAIN metadata_store_
       /\ get_all_ids(m) = Labels(modality_indices_, m)

\* Two modalities hold different ids, so that get_all_ids leaves out an
\* id that has a record.
VectorsHaveRecordsWitness ==
    /\ last.op = "add"
    /\ \E m \in DOMAIN modality_indices_ :
          /\ get_all_ids(m) # {}
          /\ DOMAIN metadata_store_ \ get_all_ids(m) # {}

----------------------------------------------------------------------------
(* Properties of the recalling calls.                                      *)

\* The calls that recall records.
Recalling == {"search", "context_chain", "touch"}

\* A record with its two recall fields taken from another record.
WithRecallOf(meta, other) ==
    [meta EXCEPT !.recall_count = other.recall_count,
                 !.last_recalled_at = other.last_recalled_at]

\* C35: search, context_chain and touch change nothing but recall_count
\* and last_recalled_at: the modalities and their vectors, the reverse
\* index, the set of records and every other field of every record are
\* the same after the call.
RecallChangesOnlyRecallFields ==
    [][last'.op \in Recalling
         => /\ modality_indices_' = modality_indices_
            /\ reverse_index_' = reverse_index_
            /\ DOMAIN metadata_store_' = DOMAIN metadata_store_
            /\ \A id \in DOMAIN metadata_store_ :
                  WithRecallOf(metadata_store_'[id], metadata_store_[id])
                      = metadata_store_[id]]_vars

\* A search or context_chain has recalled a record that has an edge whose
\* target is in the reverse index.
RecallChangesOnlyRecallFieldsWitness ==
    /\ last.op \in {"search", "context_chain"}
    /\ \E id \in DOMAIN metadata_store_ :
          /\ metadata_store_[id].recall_count >= 1
          /\ metadata_store_[id].edges # <<>>
    /\ DOMAIN reverse_index_ # {}

----------------------------------------------------------------------------
(* The getters, called on a store built through add and link.              *)

\* Mutant: a lookup by operator[], which inserts a default value under a
\* key that is absent.
subscripted(map, key, fresh) ==
    IF Has(map, key) THEN map ELSE Put(map, key, fresh)

\* The map after unordered_map::find(key): nothing is inserted.
found(map, key, fresh) == map

\* One getter call: the three maps after their lookups, and the result.
Get(op, id, modality, result) ==
    /\ metadata_store_' =
           IF op \in {"get_metadata", "get_edges"}
           THEN found(metadata_store_, id, DefaultMetadata)
           ELSE metadata_store_
    /\ reverse_index_' =
           IF op = "get_incoming" THEN found(reverse_index_, id, <<>>)
           ELSE reverse_index_
    /\ modality_indices_' =
           IF op \in {"get_vector", "get_all_ids", "dim"}
           THEN found(modality_indices_, modality, NewIndex(0))
           ELSE modality_indices_
    /\ last' = [op |-> op, id |-> id, modality |-> modality,
                err |-> "none", result |-> result]

\* DB::get_metadata.
get_metadata(id) ==
    IF Has(metadata_store_, id) THEN Some(metadata_store_[id]) ELSE None

\* DB::get_vector: getDataByLabel throws for a label the index does not
\* hold, and the exception becomes an empty vector.
get_vector(id, modality) ==
    IF ~Has(modality_indices_, modality) THEN <<>>
    ELSE IF id \in DOMAIN VectorMap(modality_indices_[modality])
         THEN VectorMap(modality_indices_[modality])[id]
         ELSE <<>>

\* DB::dim.
dim(modality) ==
    IF Has(modality_indices_, modality) THEN modality_indices_[modality].dim
    ELSE 0

GetMetadataCall ==
    /\ InMemory
    /\ \E id \in Ids : Get("get_metadata", id, StrText, get_metadata(id))

GetEdgesCall ==
    /\ InMemory
    /\ \E id \in Ids : Get("get_edges", id, StrText, get_edges(id))

GetIncomingCall ==
    /\ InMemory
    /\ \E id \in Ids : Get("get_incoming", id, StrText, get_incoming(id))

GetVectorCall ==
    /\ InMemory
    /\ \E id \in Ids, m \in Modalities :
           Get("get_vector", id, m, get_vector(id, m))

GetAllIdsCall ==
    /\ InMemory
    /\ \E m \in Modalities : Get("get_all_ids", 0, m, get_all_ids(m))

SizeCall ==
    /\ InMemory
    /\ Get("size", 0, StrText, size)

DimCall ==
    /\ InMemory
    /\ \E m \in Modalities : Get("dim", 0, m, dim(m))

ExportReadCall ==
    /\ InMemory
    /\ \E ns_filter \in {<<>>, StrNs}, ids \in Orders(metadata_store_) :
           export_graph_json(ns_filter, <<>>, ids)

NextRead ==
    \/ AddCall
    \/ LinkCall
    \/ GetMetadataCall
    \/ GetEdgesCall
    \/ GetIncomingCall
    \/ GetVectorCall
    \/ GetAllIdsCall
    \/ SizeCall
    \/ DimCall
    \/ ExportReadCall
    \/ SaveCall

SpecRead == Init /\ [][NextRead]_vars

----------------------------------------------------------------------------
(* Properties of the getters.                                              *)

ReadOps ==
    {"get_metadata", "get_edges", "get_incoming", "get_vector",
     "get_all_ids", "size", "dim", "export_graph_json", "save"}

\* What the last getter returned is the absence value when its id or its
\* modality is unknown.
AbsenceReturned ==
    /\ last.op = "get_metadata" /\ ~Has(metadata_store_, last.id)
           => last.result = None
    /\ last.op = "get_edges" /\ ~Has(metadata_store_, last.id)
           => last.result = <<>>
    /\ last.op = "get_incoming" /\ ~Has(reverse_index_, last.id)
           => last.result = <<>>
    /\ last.op = "get_vector"
       /\ last.id \notin Labels(modality_indices_, last.modality)
           => last.result = <<>>
    /\ last.op = "get_all_ids" /\ ~Has(modality_indices_, last.modality)
           => last.result = {}
    /\ last.op = "dim" /\ ~Has(modality_indices_, last.modality)
           => last.result = 0

\* C36: get_metadata, get_edges, get_incoming, get_vector, get_all_ids,
\* size, dim, export_graph_json and save leave the three maps of the store
\* as they were, and a getter asked for an unknown id or modality returns
\* its absence value with no record, reverse-index key or modality created.
ReadsLeaveStore ==
    [][last'.op \in ReadOps => store' = store /\ AbsenceReturned']_vars

\* A getter has been asked for an id with no record and no reverse-index
\* key, or for a modality that is not registered, on a store that holds a
\* record.
ReadsLeaveStoreWitness ==
    /\ size >= 1
    /\ \/ /\ last.op \in {"get_metadata", "get_edges"}
          /\ ~Has(metadata_store_, last.id)
       \/ last.op = "get_incoming" /\ ~Has(reverse_index_, last.id)
       \/ /\ last.op \in {"get_vector", "get_all_ids", "dim"}
          /\ ~Has(modality_indices_, last.modality)

----------------------------------------------------------------------------
(* Properties of the nodes of a context chain.                             *)

\* id is the target of an edge stored in some record.
IsEdgeTarget(id) ==
    \E s \in DOMAIN metadata_store_ :
       \E i \in 1..Len(metadata_store_[s].edges) :
          metadata_store_[s].edges[i].target_id = id

\* C37, as claimed: every node returned by context_chain has a metadata
\* record; an id that is only the target of an edge is not returned.
ChainNodesHaveRecords ==
    last.op = "context_chain"
    => \A i \in 1..Len(last.nodes) : Has(metadata_store_, last.nodes[i].id)

\* C37, as the code has it: a node returned by context_chain carries the
\* record of its id, or, when its id has no record, default metadata; such
\* a node is the target of a stored edge and was reached by expansion.
ChainNodesCarryRecordOrDefault ==
    last.op = "context_chain"
    => \A i \in 1..Len(last.nodes) :
          IF Has(metadata_store_, last.nodes[i].id)
          THEN last.nodes[i].metadata = metadata_store_[last.nodes[i].id]
          ELSE /\ last.nodes[i].metadata = DefaultMetadata
               /\ last.nodes[i].hop >= 1
               /\ IsEdgeTarget(last.nodes[i].id)

\* context_chain has returned a node whose id was never added.
ChainNodeWithoutRecord ==
    /\ last.op = "context_chain"
    /\ \E i \in 1..Len(last.nodes) : ~Has(metadata_store_, last.nodes[i].id)

----------------------------------------------------------------------------
(* Two threads inside DB::search with the same arguments, with no lock:    *)
(* the load and the store of recall_count++ in touch, the store of         *)
(* last_recalled_at, the copy of the record and the final sort are steps   *)
(* of their thread.                                                        *)

\* No thread is inside search.
Idle ==
    last.op = "search_pair" => \A t \in Threads : last.pc[t] = "done"

\* Thread t is at the statement pc of search.
InSearch(t, pc) ==
    /\ last.op = "search_pair"
    /\ last.pc[t] = pc
    /\ UNCHANGED <<modality_indices_, reverse_index_, file, atSave, steps>>

\* The hit thread t has popped, and its label.
Popped(t) == last.hits[t][last.at[t]]

PoppedId(t) == Popped(t).label

\* Both threads call search(q, k, nullptr, nullptr, modality): find the
\* modality and run searchKnn, which writes nothing to the store and pops
\* the same hits for both, the index and the query being the same.
StartSearchesCall ==
    /\ Idle
    /\ InMemory
    /\ \E q \in Vecs, k \in 1..MaxK, modality \in Modalities, now \in Nows,
          tie \in Ties :
          \E hits \in
               IF ~Has(modality_indices_, modality)
               THEN {[t \in Threads |-> <<>>]}
               ELSE {[t \in Threads |->
                         searchKnn(modality_indices_[modality], v, k, tie)] :
                     v \in QueryViews(q, modality_indices_[modality].dim)} :
             last' = [op |-> "search_pair", err |-> "none", k |-> k,
                      modality |-> modality, now |-> now, hits |-> hits,
                      at |-> [t \in Threads |-> 1],
                      pc |-> [t \in Threads |->
                                 IF hits[t] = <<>> THEN "done" ELSE "load"],
                      reg |-> [t \in Threads |-> 0],
                      results |-> [t \in Threads |-> <<>>],
                      before |-> metadata_store_]
    /\ UNCHANGED store

\* touch: find(id) and the load of recall_count++.
TouchLoad(t) ==
    /\ InSearch(t, "load")
    /\ IF Has(metadata_store_, PoppedId(t))
       THEN last' = [last EXCEPT
                        !.reg[t] = metadata_store_[PoppedId(t)].recall_count,
                        !.pc[t] = "store"]
       ELSE last' = [last EXCEPT !.pc[t] = "copy"]
    /\ UNCHANGED metadata_store_

\* touch: the store of recall_count++.
TouchStore(t) ==
    /\ InSearch(t, "store")
    /\ metadata_store_' =
           [metadata_store_ EXCEPT ![PoppedId(t)].recall_count = last.reg[t] + 1]
    /\ last' = [last EXCEPT !.pc[t] = "stamp"]

\* touch: last_recalled_at = time(nullptr).
TouchStamp(t) ==
    /\ InSearch(t, "stamp")
    /\ metadata_store_' =
           [metadata_store_ EXCEPT ![PoppedId(t)].last_recalled_at = last.now]
    /\ last' = [last EXCEPT !.pc[t] = "copy"]

\* The copy of the record into a SearchResult, and the next turn of the
\* loop.
SearchCopy(t) ==
    /\ InSearch(t, "copy")
    /\ last' = [last EXCEPT
                   !.results[t] =
                       Append(@, [id |-> PoppedId(t),
                                  score |-> Similarity(Popped(t).dist),
                                  metadata |-> MetadataOf(metadata_store_,
                                                          PoppedId(t))]),
                   !.at[t] = @ + 1,
                   !.pc[t] = IF last.at[t] = Len(last.hits[t]) THEN "sort"
                             ELSE "load"]
    /\ UNCHANGED metadata_store_

\* std::sort and resize(k).
SearchSort(t) ==
    /\ InSearch(t, "sort")
    /\ \E sorted \in ByScoreDescending(last.results[t]) :
          last' = [last EXCEPT !.results[t] = Truncate(sorted, last.k),
                               !.pc[t] = "done"]
    /\ UNCHANGED metadata_store_

AddIdleCall == Idle /\ AddCall

NextRecall ==
    \/ AddIdleCall
    \/ StartSearchesCall
    \/ \E t \in Threads : TouchLoad(t)
    \/ \E t \in Threads : TouchStore(t)
    \/ \E t \in Threads : TouchStamp(t)
    \/ \E t \in Threads : SearchCopy(t)
    \/ \E t \in Threads : SearchSort(t)

SpecRecall == Init /\ [][NextRecall]_vars

----------------------------------------------------------------------------
(* Properties of unsynchronised searches.                                  *)

\* The ids thread t's search returned.
Returned(t) == {last.results[t][j].id : j \in 1..Len(last.results[t])}

ConcurrentSearchesCountOnceOrTwice ==
    (last.op = "search_pair" /\ \A t \in Threads : last.pc[t] = "done")
    => \A id \in DOMAIN last.before :
          (\A t \in Threads : id \in Returned(t))
          => metadata_store_[id].recall_count - last.before[id].recall_count
                 \in {1, 2}

====
